---- MODULE Spec2Model ----
(***************************************************************************)
(* The schema compressor of the repository (jsonSchemaToXml,               *)
(* getCompactType, compressSchemaWithMetrics, compressToolSchemas) in its  *)
(* three variants, and the provider selection of the OpenRouter handler    *)
(* (getProvidersToUse, shouldFailover, createCompletionParams), as pure    *)
(* operators over JavaScript values, and a call harness that applies them  *)
(* to bounded sets of inputs.                                              *)
(*                                                                         *)
(* A JavaScript string is a sequence of UTF-16 code units, each written as *)
(* a one-character TLA+ string; the four non-ASCII code units the code     *)
(* emits are written "INF" (U+221E), "GE" (U+2265), "LE" (U+2264) and      *)
(* "MUL" (U+00D7), and a line feed is "NL".                                *)
(***************************************************************************)
EXTENDS Integers, Sequences, FiniteSets, TLC

(***************************************************************************)
(* JavaScript values.  Throw is the abrupt completion of an expression     *)
(* that raised (here always a TypeError); every operator propagates it.    *)
(***************************************************************************)
Undef == [k |-> "undefined"]
Null == [k |-> "null"]
Throw == [k |-> "throw"]
Bool(b) == [k |-> "boolean", b |-> b]
Num(n) == [k |-> "number", n |-> n]
Str(s) == [k |-> "string", s |-> s]
Arr(a) == [k |-> "array", a |-> a]
\* An object: its own properties <<[key, val], ...>> in insertion order.
Obj(e) == [k |-> "object", e |-> e]
Ent(key, val) == [key |-> key, val |-> val]

\* The string literals of the compressor's source.
S ==
  [ schemaOpen |-> <<"<", "s", "c", "h", "e", "m", "a", ">">>,
    schemaClose |-> <<"<", "/", "s", "c", "h", "e", "m", "a", ">">>,
    any |-> <<"a", "n", "y">>,
    arrayAny |-> <<"a", "r", "r", "a", "y", "[", "a", "n", "y", "]">>,
    tupleOpen |-> <<"t", "u", "p", "l", "e", "[">>,
    arrayOpen |-> <<"a", "r", "r", "a", "y", "[">>,
    constOpen |-> <<"c", "o", "n", "s", "t", "(">>,
    enumOpen |-> <<"e", "n", "u", "m", "(">>,
    enum |-> <<"e", "n", "u", "m">>,
    mergedOpen |-> <<"m", "e", "r", "g", "e", "d", "{">>,
    merged |-> <<"m", "e", "r", "g", "e", "d">>,
    objectOpen |-> <<"o", "b", "j", "e", "c", "t", "{">>,
    objectParen |-> <<"o", "b", "j", "e", "c", "t", "(">>,
    object |-> <<"o", "b", "j", "e", "c", "t">>,
    number |-> <<"n", "u", "m", "b", "e", "r">>,
    numberOpen |-> <<"n", "u", "m", "b", "e", "r", "(">>,
    string |-> <<"s", "t", "r", "i", "n", "g">>,
    integer |-> <<"i", "n", "t", "e", "g", "e", "r">>,
    boolean |-> <<"b", "o", "o", "l", "e", "a", "n">>,
    null |-> <<"n", "u", "l", "l">>,
    array |-> <<"a", "r", "r", "a", "y">>,
    undefined |-> <<"u", "n", "d", "e", "f", "i", "n", "e", "d">>,
    true |-> <<"t", "r", "u", "e">>,
    false |-> <<"f", "a", "l", "s", "e">>,
    objectObject |-> <<"[", "o", "b", "j", "e", "c", "t", " ", "O", "b", "j", "e", "c", "t", "]">>,
    date |-> <<"d", "a", "t", "e">>,
    dateTime |-> <<"d", "a", "t", "e", "-", "t", "i", "m", "e">>,
    datetime |-> <<"d", "a", "t", "e", "t", "i", "m", "e">>,
    email |-> <<"e", "m", "a", "i", "l">>,
    uri |-> <<"u", "r", "i">>,
    url |-> <<"u", "r", "l">>,
    uuid |-> <<"u", "u", "i", "d">>,
    ipv4 |-> <<"i", "p", "v", "4">>,
    ipv6 |-> <<"i", "p", "v", "6">>,
    union |-> <<"u", "n", "i", "o", "n">>,
    amp |-> <<"&", "a", "m", "p", ";">>,
    lt |-> <<"&", "l", "t", ";">>,
    gt |-> <<"&", "g", "t", ";">>,
    quot |-> <<"&", "q", "u", "o", "t", ";">>,
    apos |-> <<"&", "a", "p", "o", "s", ";">>,
    commaSpace |-> <<",", " ">>,
    dotdot |-> <<".", ".">>,
    timeout |-> <<"t", "i", "m", "e", "o", "u", "t">>,
    ECONNABORTED |-> <<"E", "C", "O", "N", "N", "A", "B", "O", "R", "T", "E", "D">>,
    apiError |-> <<"O", "p", "e", "n", "R", "o", "u", "t", "e", "r", " ", "A", "P", "I", " ", "E", "r", "r", "o", "r", " ">>,
    colonSpace |-> <<":", " ">>,
    thinkOpen |-> <<"<", "t", "h", "i", "n", "k", ">">>,
    thinkClose |-> <<"<", "/", "t", "h", "i", "n", "k", ">">>,
    data |-> <<"d", "a", "t", "a", ":", " ">>,
    DONE |-> <<"[", "D", "O", "N", "E", "]">> ]

\* The property names the source reads.
K ==
  [ type |-> <<"t", "y", "p", "e">>,
    format |-> <<"f", "o", "r", "m", "a", "t">>,
    enum |-> <<"e", "n", "u", "m">>,
    const |-> <<"c", "o", "n", "s", "t">>,
    items |-> <<"i", "t", "e", "m", "s">>,
    properties |-> <<"p", "r", "o", "p", "e", "r", "t", "i", "e", "s">>,
    oneOf |-> <<"o", "n", "e", "O", "f">>,
    anyOf |-> <<"a", "n", "y", "O", "f">>,
    allOf |-> <<"a", "l", "l", "O", "f">>,
    default |-> <<"d", "e", "f", "a", "u", "l", "t">>,
    minimum |-> <<"m", "i", "n", "i", "m", "u", "m">>,
    maximum |-> <<"m", "a", "x", "i", "m", "u", "m">>,
    multipleOf |-> <<"m", "u", "l", "t", "i", "p", "l", "e", "O", "f">>,
    minLength |-> <<"m", "i", "n", "L", "e", "n", "g", "t", "h">>,
    maxLength |-> <<"m", "a", "x", "L", "e", "n", "g", "t", "h">>,
    pattern |-> <<"p", "a", "t", "t", "e", "r", "n">>,
    minItems |-> <<"m", "i", "n", "I", "t", "e", "m", "s">>,
    maxItems |-> <<"m", "a", "x", "I", "t", "e", "m", "s">>,
    required |-> <<"r", "e", "q", "u", "i", "r", "e", "d">>,
    length |-> <<"l", "e", "n", "g", "t", "h">>,
    description |-> <<"d", "e", "s", "c", "r", "i", "p", "t", "i", "o", "n">>,
    name |-> <<"n", "a", "m", "e">>,
    inputSchema |-> <<"i", "n", "p", "u", "t", "S", "c", "h", "e", "m", "a">> ]

Digits == <<"0", "1", "2", "3", "4", "5", "6", "7", "8", "9">>

RECURSIVE Flatten(_)
\* The concatenation of a sequence of strings.
Flatten(ss) == IF Len(ss) = 0 THEN <<>> ELSE Head(ss) \o Flatten(Tail(ss))

RECURSIVE NatToChars(_)
NatToChars(n) ==
  IF n < 10 THEN <<Digits[n + 1]>>
  ELSE NatToChars(n \div 10) \o <<Digits[(n % 10) + 1]>>

\* Number.prototype.toString for an integer.
NumToChars(n) == IF n < 0 THEN <<"-">> \o NatToChars(0 - n) ELSE NatToChars(n)

IsThrow(v) == v.k = "throw"
IsUndefined(v) == v.k = "undefined"
IsArray(v) == v.k = "array"
\* typeof v === "object" (true of null too)
TypeofObject(v) == v.k \in {"object", "array", "null"}
\* ToBoolean
Truthy(v) ==
  CASE v.k \in {"undefined", "null"} -> FALSE
    [] v.k = "boolean" -> v.b
    [] v.k = "number" -> v.n # 0
    [] v.k = "string" -> Len(v.s) > 0
    [] OTHER -> TRUE
\* v === "<chars>"
IsStr(v, chars) == v.k = "string" /\ v.s = chars

\* A canonical array index: such keys are enumerated first, in ascending order.
IsArrayIndex(key) ==
  /\ Len(key) >= 1
  /\ \A i \in 1..Len(key) : \E d \in 1..10 : Digits[d] = key[i]
  /\ (Len(key) = 1 \/ key[1] # "0")

DigitVal(c) == (CHOOSE d \in 1..10 : Digits[d] = c) - 1

RECURSIVE KeyNum(_)
KeyNum(key) ==
  IF Len(key) = 0 THEN 0
  ELSE 10 * KeyNum(SubSeq(key, 1, Len(key) - 1)) + DigitVal(key[Len(key)])

RECURSIVE InsertByIndex(_, _)
InsertByIndex(sorted, e) ==
  IF Len(sorted) = 0 THEN <<e>>
  ELSE IF KeyNum(e.key) < KeyNum(Head(sorted).key) THEN <<e>> \o sorted
  ELSE <<Head(sorted)>> \o InsertByIndex(Tail(sorted), e)

RECURSIVE SortByIndex(_)
SortByIndex(es) ==
  IF Len(es) = 0 THEN <<>>
  ELSE InsertByIndex(SortByIndex(SubSeq(es, 1, Len(es) - 1)), es[Len(es)])

\* Object.entries(v): the own enumerable string-keyed properties in
\* OrdinaryOwnPropertyKeys order (array indices ascending, then the other
\* keys in insertion order); the indices of an array or of a string.
ObjectEntries(v) ==
  CASE v.k = "object" ->
         SortByIndex(SelectSeq(v.e, LAMBDA e : IsArrayIndex(e.key)))
           \o SelectSeq(v.e, LAMBDA e : ~IsArrayIndex(e.key))
    [] v.k = "array" -> [i \in 1..Len(v.a) |-> Ent(NatToChars(i - 1), v.a[i])]
    [] v.k = "string" -> [i \in 1..Len(v.s) |-> Ent(NatToChars(i - 1), Str(<<v.s[i]>>))]
    [] OTHER -> <<>>

\* Object.keys(v).length
ObjectKeysLength(v) == Len(ObjectEntries(v))

\* v[key] for a property name the source reads: a TypeError on undefined
\* and null, the own property of an object, the length of a string or array.
Get(v, key) ==
  CASE v.k \in {"undefined", "null", "throw"} -> Throw
    [] v.k = "object" ->
         LET I == {i \in 1..Len(v.e) : v.e[i].key = key}
         IN  IF I = {} THEN Undef ELSE v.e[CHOOSE i \in I : TRUE].val
    [] v.k = "array" -> IF key = K.length THEN Num(Len(v.a)) ELSE Undef
    [] v.k = "string" -> IF key = K.length THEN Num(Len(v.s)) ELSE Undef
    [] OTHER -> Undef

\* The concatenation of string values; Throw if one of them is.
Cat(parts) ==
  IF \E i \in 1..Len(parts) : IsThrow(parts[i]) THEN Throw
  ELSE Str(Flatten([i \in 1..Len(parts) |-> parts[i].s]))

RECURSIVE JoinChars(_, _)
JoinChars(ss, sep) ==
  IF Len(ss) = 0 THEN <<>>
  ELSE IF Len(ss) = 1 THEN ss[1]
  ELSE ss[1] \o sep \o JoinChars(Tail(ss), sep)

\* parts.join(sep) for an array of string values; Throw if the callback that
\* produced one of them raised.
Join(parts, sep) ==
  IF \E i \in 1..Len(parts) : IsThrow(parts[i]) THEN Throw
  ELSE Str(JoinChars([i \in 1..Len(parts) |-> parts[i].s], sep))

RECURSIVE StringOf(_)
\* String(v), the conversion of a template literal `${v}`.
StringOf(v) ==
  CASE v.k = "string" -> v
    [] v.k = "number" -> Str(NumToChars(v.n))
    [] v.k = "boolean" -> Str(IF v.b THEN S.true ELSE S.false)
    [] v.k = "undefined" -> Str(S.undefined)
    [] v.k = "null" -> Str(S.null)
    [] v.k = "array" ->
         Join([i \in 1..Len(v.a) |->
                 IF v.a[i].k \in {"undefined", "null"} THEN Str(<<>>)
                 ELSE StringOf(v.a[i])], <<",">>)
    [] v.k = "object" -> Str(S.objectObject)
    [] OTHER -> Throw

\* v.toString(): a TypeError on undefined and null.
ToStringMethod(v) == IF v.k \in {"undefined", "null"} THEN Throw ELSE StringOf(v)

RECURSIVE ReplaceAll(_, _, _)
\* text.replace(/c/g, rep)
ReplaceAll(text, c, rep) ==
  IF Len(text) = 0 THEN <<>>
  ELSE (IF Head(text) = c THEN rep ELSE <<Head(text)>>) \o ReplaceAll(Tail(text), c, rep)

escapeXml(text) ==
  ReplaceAll(ReplaceAll(ReplaceAll(ReplaceAll(ReplaceAll(text,
    "&", S.amp), "<", S.lt), ">", S.gt), "\"", S.quot), "'", S.apos)

\* escapeXml applied to a string value or to the Throw of its argument.
EscapeV(v) == IF IsThrow(v) THEN Throw ELSE Str(escapeXml(v.s))

ENUM_DISPLAY_THRESHOLD == 3

\* v.slice(0, 10) of a string or an array; any other value has no slice method.
Slice10(v) ==
  CASE v.k = "string" -> Str(SubSeq(v.s, 1, 10))
    [] v.k = "array" -> Arr(SubSeq(v.a, 1, 10))
    [] OTHER -> Throw

RECURSIVE AssignEntries_KeepFirst(_, _)
\* AssignEntries that keeps the value a key already has.
AssignEntries_KeepFirst(target, src) ==
  IF Len(src) = 0 THEN target
  ELSE LET e == Head(src)
           next == IF \E i \in 1..Len(target) : target[i].key = e.key THEN target
                   ELSE Append(target, e)
       IN  AssignEntries_KeepFirst(next, Tail(src))

\* Object.assign(target, source) on the own properties of the target.
RECURSIVE AssignEntries(_, _)
AssignEntries(target, src) ==
  IF Len(src) = 0 THEN target
  ELSE LET e == Head(src)
           I == {i \in 1..Len(target) : target[i].key = e.key}
           next == IF I = {} THEN Append(target, e)
                   ELSE [target EXCEPT ![CHOOSE i \in I : TRUE] = e]
       IN  AssignEntries(next, Tail(src))

RECURSIVE MergeFrom(_, _)
\* The loop of mergeAllOfProperties over the members not yet visited.
MergeFrom(merged, members) ==
  IF Len(members) = 0 THEN Obj(merged)
  ELSE LET props == Get(Head(members), K.properties)
       IN  IF IsThrow(props) THEN Throw
           ELSE IF Truthy(props)
             THEN MergeFrom(AssignEntries(merged, ObjectEntries(props)), Tail(members))
           ELSE MergeFrom(merged, Tail(members))

mergeAllOfProperties(allOf) == MergeFrom(<<>>, allOf.a)

\* v.length <= n with the abstract relational comparison of JavaScript:
\* undefined compares false, a number by value.
LengthLE(v, n) ==
  LET len == Get(v, K.length) IN len.k = "number" /\ len.n <= n
LengthGT(v, n) ==
  LET len == Get(v, K.length) IN len.k = "number" /\ len.n > n

\* `${prefix}${v}`: a constraint pushed when v !== undefined.
Constraint(prefix, v) ==
  IF IsUndefined(v) THEN <<>> ELSE <<Cat(<<Str(<<prefix>>), StringOf(v)>>)>>

\* base, or base(c1,c2,...) when there are constraints.
WithConstraints(base, constraints) ==
  IF Len(constraints) > 0
    THEN Cat(<<Str(base), Str(<<"(">>), Join(constraints, <<",">>), Str(<<")">>)>>)
  ELSE Str(base)

RECURSIVE getCompactType(_)
\* One member of a oneOf/anyOf union.
UnionPart(p) ==
  LET enum == Get(p, K.enum)
      type == Get(p, K.type)
      props == Get(p, K.properties)
  IN  IF IsThrow(enum) THEN Throw
      ELSE IF Truthy(enum) THEN
        IF LengthLE(enum, 3) THEN
          IF ~IsArray(enum) THEN Throw
          ELSE Cat(<<Str(S.enumOpen),
                     Join([i \in 1..Len(enum.a) |-> EscapeV(ToStringMethod(enum.a[i]))], <<"|">>),
                     Str(<<")">>)>>)
        ELSE Cat(<<Str(S.enumOpen), StringOf(Get(enum, K.length)), Str(<<")">>)>>)
      ELSE IF IsStr(type, S.number) \/ IsStr(type, S.integer) THEN
        WithConstraints(S.number,
          Constraint("GE", Get(p, K.minimum)) \o Constraint("LE", Get(p, K.maximum)))
      ELSE IF IsStr(type, S.object) /\ Truthy(props) THEN
        IF ObjectKeysLength(props) <= 2
          THEN Cat(<<Str(S.objectParen), Str(NatToChars(ObjectKeysLength(props))), Str(<<")">>)>>)
        ELSE Str(S.object)
      ELSE StringOf(getCompactType(p))

\* k:type for each entry, joined by ","
NestedProps(entries) ==
  Join([i \in 1..Len(entries) |->
          Cat(<<Str(escapeXml(entries[i].key)), Str(<<":">>),
                StringOf(getCompactType(entries[i].val))>>)], <<",">>)

\* RangeSuffix with a "-" between the two bounds.
RangeSuffix_Dash(min, max) ==
  Cat(<<Str(<<"{">>), StringOf(min), Str(<<"-">>), StringOf(max), Str(<<"}">>)>>)

\* `{${min}..${max}}`
RangeSuffix(min, max) ==
  Cat(<<Str(<<"{">>), StringOf(min), Str(S.dotdot), StringOf(max), Str(<<"}">>)>>)

\* ArrayType with the type field of the items in place of their encoding.
ArrayType_Shallow(prop) ==
  LET items == Get(prop, K.items)
      minItems == Get(prop, K.minItems)
      maxItems == Get(prop, K.maxItems)
      itemsType == IF Truthy(items) THEN Get(items, K.type) ELSE Undef
      arrayType ==
        IF Truthy(itemsType)
          THEN Cat(<<Str(S.arrayOpen), StringOf(itemsType), Str(<<"]">>)>>)
        ELSE Str(S.arrayAny)
      min == IF Truthy(minItems) THEN minItems ELSE Num(0)
      max == IF Truthy(maxItems) THEN maxItems ELSE Str(<<"INF">>)
  IN  IF ~IsUndefined(minItems) \/ ~IsUndefined(maxItems)
        THEN Cat(<<arrayType, RangeSuffix(min, max)>>)
      ELSE arrayType

\* The branch of type "array": array[...] or tuple[...], then {min..max}.
ArrayType(prop) ==
  LET items == Get(prop, K.items)
      minItems == Get(prop, K.minItems)
      maxItems == Get(prop, K.maxItems)
      arrayType ==
        IF Truthy(items) THEN
          IF IsArray(items)
            THEN Cat(<<Str(S.tupleOpen),
                       Join([i \in 1..Len(items.a) |-> StringOf(getCompactType(items.a[i]))], <<",">>),
                       Str(<<"]">>)>>)
          ELSE Cat(<<Str(S.arrayOpen), StringOf(getCompactType(items)), Str(<<"]">>)>>)
        ELSE Str(S.arrayAny)
      min == IF Truthy(minItems) THEN minItems ELSE Num(0)
      max == IF Truthy(maxItems) THEN maxItems ELSE Str(<<"INF">>)
  IN  IF ~IsUndefined(minItems) \/ ~IsUndefined(maxItems)
        THEN Cat(<<arrayType, RangeSuffix(min, max)>>)
      ELSE arrayType

\* The branch of a const that is not undefined.
ConstType(prop) ==
  Cat(<<Str(S.constOpen), EscapeV(ToStringMethod(Get(prop, K.const))), Str(<<")">>)>>)

\* The branch of an enum that is an array.
EnumType(prop) ==
  LET enum == Get(prop, K.enum)
  IN  IF Len(enum.a) <= ENUM_DISPLAY_THRESHOLD
        THEN Cat(<<Str(S.enumOpen),
                   Join([i \in 1..Len(enum.a) |-> EscapeV(ToStringMethod(enum.a[i]))], <<"|">>),
                   Str(<<")">>)>>)
      ELSE Str(S.enum)

\* The branch of an allOf that is an array.
AllOfType(prop) ==
  LET mergedProps == mergeAllOfProperties(Get(prop, K.allOf))
  IN  IF IsThrow(mergedProps) THEN Throw
      ELSE IF ObjectKeysLength(mergedProps) > 0
        THEN Cat(<<Str(S.mergedOpen), NestedProps(ObjectEntries(mergedProps)), Str(<<"}">>)>>)
      ELSE Str(S.merged)

\* ObjectType that expands objects of up to 3 properties.
ObjectType_ThreeEntries(prop) ==
  LET properties == Get(prop, K.properties)
  IN  IF Truthy(properties) /\ ObjectKeysLength(properties) <= 3
        THEN Cat(<<Str(S.objectOpen), NestedProps(ObjectEntries(properties)), Str(<<"}">>)>>)
      ELSE Str(S.object)

\* The branch of type "object".
ObjectType(prop) ==
  LET properties == Get(prop, K.properties)
  IN  IF Truthy(properties) /\ ObjectKeysLength(properties) <= 2
        THEN Cat(<<Str(S.objectOpen), NestedProps(ObjectEntries(properties)), Str(<<"}">>)>>)
      ELSE Str(S.object)

\* The branch of a truthy oneOf or anyOf.
UnionType(prop) ==
  LET oneOf == Get(prop, K.oneOf)
      unionArray == IF Truthy(oneOf) THEN oneOf ELSE Get(prop, K.anyOf)
  IN  IF ~IsArray(unionArray) THEN Throw
      ELSE Join([i \in 1..Len(unionArray.a) |-> UnionPart(unionArray.a[i])], <<"|">>)

\* case "string"
StringType(prop) ==
  LET format == Get(prop, K.format)
      pattern == Get(prop, K.pattern)
      default == Get(prop, K.default)
      stringType ==
        IF IsStr(format, S.date) THEN S.date
        ELSE IF IsStr(format, S.dateTime) THEN S.datetime
        ELSE IF IsStr(format, S.email) THEN S.email
        ELSE IF IsStr(format, S.uri) \/ IsStr(format, S.url) THEN S.url
        ELSE IF IsStr(format, S.uuid) THEN S.uuid
        ELSE IF IsStr(format, S.ipv4) THEN S.ipv4
        ELSE IF IsStr(format, S.ipv6) THEN S.ipv6
        ELSE S.string
      shortPattern == IF LengthGT(pattern, 10) THEN Slice10(pattern) ELSE pattern
      constraints ==
        Constraint("GE", Get(prop, K.minLength)) \o Constraint("LE", Get(prop, K.maxLength))
          \o (IF Truthy(pattern)
                THEN <<Cat(<<Str(<<"/">>), StringOf(shortPattern), Str(<<"/">>)>>)>>
              ELSE <<>>)
      finalType == WithConstraints(stringType, constraints)
  IN  IF ~IsUndefined(default)
        THEN Cat(<<finalType, Str(<<"=", "\"">>), EscapeV(ToStringMethod(default)), Str(<<"\"">>)>>)
      ELSE finalType

\* case "number", case "integer"
NumberType(prop) ==
  LET default == Get(prop, K.default)
      finalType ==
        WithConstraints(S.number,
          Constraint("GE", Get(prop, K.minimum)) \o Constraint("LE", Get(prop, K.maximum))
            \o Constraint("MUL", Get(prop, K.multipleOf)))
  IN  IF ~IsUndefined(default) THEN Cat(<<finalType, Str(<<"=">>), StringOf(default)>>)
      ELSE finalType

\* case "boolean"
BooleanType(prop) ==
  LET default == Get(prop, K.default)
  IN  IF ~IsUndefined(default) THEN Cat(<<Str(S.boolean), Str(<<"=">>), StringOf(default)>>)
      ELSE Str(S.boolean)

\* getCompactType with the test of enum ahead of the test of const.
getCompactType_EnumBeforeConst(prop) ==
  IF ~Truthy(prop) \/ ~TypeofObject(prop) THEN Str(S.any)
  ELSE
  LET type == Get(prop, K.type)
      enum == Get(prop, K.enum)
      allOf == Get(prop, K.allOf)
  IN
  IF IsStr(type, S.array) THEN ArrayType(prop)
  ELSE IF Truthy(enum) /\ IsArray(enum) THEN EnumType(prop)
  ELSE IF ~IsUndefined(Get(prop, K.const)) THEN ConstType(prop)
  ELSE IF Truthy(allOf) /\ IsArray(allOf) THEN AllOfType(prop)
  ELSE IF IsStr(type, S.object) THEN ObjectType(prop)
  ELSE IF Truthy(Get(prop, K.oneOf)) \/ Truthy(Get(prop, K.anyOf)) THEN UnionType(prop)
  ELSE IF IsStr(type, S.string) THEN StringType(prop)
  ELSE IF IsStr(type, S.number) \/ IsStr(type, S.integer) THEN NumberType(prop)
  ELSE IF IsStr(type, S.boolean) THEN BooleanType(prop)
  ELSE IF IsStr(type, S.null) THEN Str(S.null)
  ELSE IF Truthy(type) THEN type ELSE Str(S.any)

\* The value getCompactType returns: a string, except that the default case
\* returns prop.type itself, whatever it is; Throw when the call raises.
getCompactType(prop) ==
  IF ~Truthy(prop) \/ ~TypeofObject(prop) THEN Str(S.any)
  ELSE
  LET type == Get(prop, K.type)
      enum == Get(prop, K.enum)
      allOf == Get(prop, K.allOf)
  IN
  IF IsStr(type, S.array) THEN ArrayType(prop)
  ELSE IF ~IsUndefined(Get(prop, K.const)) THEN ConstType(prop)
  ELSE IF Truthy(enum) /\ IsArray(enum) THEN EnumType(prop)
  ELSE IF Truthy(allOf) /\ IsArray(allOf) THEN AllOfType(prop)
  ELSE IF IsStr(type, S.object) THEN ObjectType(prop)
  ELSE IF Truthy(Get(prop, K.oneOf)) \/ Truthy(Get(prop, K.anyOf)) THEN UnionType(prop)
  ELSE IF IsStr(type, S.string) THEN StringType(prop)
  ELSE IF IsStr(type, S.number) \/ IsStr(type, S.integer) THEN NumberType(prop)
  ELSE IF IsStr(type, S.boolean) THEN BooleanType(prop)
  ELSE IF IsStr(type, S.null) THEN Str(S.null)
  ELSE IF Truthy(type) THEN type ELSE Str(S.any)

\* required.includes(key): membership in an array, substring of a string, a
\* TypeError on a value that has no includes method.
Includes(required, key) ==
  CASE required.k = "array" -> Bool(\E i \in 1..Len(required.a) : IsStr(required.a[i], key))
    [] required.k = "string" ->
         Bool(\E i \in 0..(Len(required.s) - Len(key)) :
                SubSeq(required.s, i + 1, i + Len(key)) = key)
    [] OTHER -> Throw

\* Param with the two markers exchanged.
Param_MarkersExchanged(required, e) ==
  LET inc == Includes(required, e.key)
  IN  IF IsThrow(inc) THEN Throw
      ELSE Cat(<<Str(escapeXml(e.key)), Str(IF inc.b THEN <<"?">> ELSE <<"*">>),
                 Str(<<":">>), StringOf(getCompactType(e.val))>>)

\* The callback of the two entries.map calls of jsonSchemaToXml:
\* `${safeKey}${isRequired}:${type}`
Param(required, e) ==
  LET inc == Includes(required, e.key)
  IN  IF IsThrow(inc) THEN Throw
      ELSE Cat(<<Str(escapeXml(e.key)), Str(IF inc.b THEN <<"*">> ELSE <<"?">>),
                 Str(<<":">>), StringOf(getCompactType(e.val))>>)

Params(schema, entries) ==
  LET req == Get(schema, K.required)
      required == IF Truthy(req) THEN req ELSE Arr(<<>>)
  IN  Join([i \in 1..Len(entries) |-> Param(required, entries[i])], S.commaSpace)

\* RootArrayApplies, but not when the schema has properties.
RootArrayApplies_UnlessProperties(schema) ==
  /\ IsStr(Get(schema, K.type), S.array) /\ Truthy(Get(schema, K.items))
  /\ ~Truthy(Get(schema, K.properties))

\* schema.type === "array" && schema.items
RootArrayApplies(schema) ==
  IsStr(Get(schema, K.type), S.array) /\ Truthy(Get(schema, K.items))

\* The root array: tuple[...] of an array of items, array[...] otherwise.
RootArray(schema) ==
  LET items == Get(schema, K.items)
  IN  IF IsArray(items) THEN
        Cat(<<Str(S.schemaOpen), Str(S.tupleOpen),
              Join([i \in 1..Len(items.a) |-> StringOf(getCompactType(items.a[i]))], <<",">>),
              Str(<<"]">>), Str(S.schemaClose)>>)
      ELSE Cat(<<Str(S.schemaOpen), Str(S.arrayOpen), StringOf(getCompactType(items)),
                 Str(<<"]">>), Str(S.schemaClose)>>)

\* The root allOf branch without its test of the merged properties.
RootMergedApplies_NoEmptyCheck(schema) ==
  LET allOf == Get(schema, K.allOf) IN Truthy(allOf) /\ IsArray(allOf)

\* The root allOf branch is taken (and returns, or raises inside
\* mergeAllOfProperties): allOf is an array and merges to some property.
RootMergedApplies(schema) ==
  LET allOf == Get(schema, K.allOf)
      mergedProps == mergeAllOfProperties(allOf)
  IN  /\ Truthy(allOf) /\ IsArray(allOf)
      /\ (IsThrow(mergedProps) \/ ObjectKeysLength(mergedProps) > 0)

RootMerged(schema) ==
  LET mergedProps == mergeAllOfProperties(Get(schema, K.allOf))
  IN  IF IsThrow(mergedProps) THEN Throw
      ELSE Cat(<<Str(S.schemaOpen), Str(S.mergedOpen),
                 Params(schema, ObjectEntries(mergedProps)),
                 Str(<<"}">>), Str(S.schemaClose)>>)

\* The empty-properties return and the parameter list.
RootProperties(schema) ==
  LET properties == Get(schema, K.properties)
  IN  IF ~Truthy(properties) \/ ObjectKeysLength(properties) = 0
        THEN Str(S.schemaOpen \o S.schemaClose)
      ELSE Cat(<<Str(S.schemaOpen), Params(schema, ObjectEntries(properties)),
                 Str(S.schemaClose)>>)

\* jsonSchemaToXml past its first guard.
RootEncode(schema) ==
  IF RootArrayApplies(schema) THEN RootArray(schema)
  ELSE IF RootMergedApplies(schema) THEN RootMerged(schema)
  ELSE RootProperties(schema)

\* jsonSchemaToXml without the `!schema ||` of its guard: typeof null is
\* "object", and schema.type then raises.
jsonSchemaToXml_NoNullGuard(schema) ==
  IF ~TypeofObject(schema) THEN Str(S.schemaOpen \o S.schemaClose)
  ELSE IF schema.k = "null" THEN Throw
  ELSE RootEncode(schema)

jsonSchemaToXml(schema) ==
  IF ~Truthy(schema) \/ ~TypeofObject(schema) THEN Str(S.schemaOpen \o S.schemaClose)
  ELSE RootEncode(schema)

(***************************************************************************)
(* The second variant of the compressor (no const, allOf, tuple or         *)
(* constraint support; clamped metrics).  Its functions carry the suffix 4 *)
(* here, those of the third variant (no escaping; unclamped metrics) the   *)
(* suffix 3: the three files define the same names.                        *)
(***************************************************************************)
\* escapeXml as the callback of prop.enum.map(escapeXml): text.replace is a
\* TypeError unless the element is a string.
EscapeElement(v) == IF v.k = "string" THEN Str(escapeXml(v.s)) ELSE Throw

\* unionArray.map((p) => p.type).filter(Boolean), then join or "union"
UnionTypes(unionArray) ==
  IF ~IsArray(unionArray) THEN Throw
  ELSE LET types == [i \in 1..Len(unionArray.a) |-> Get(unionArray.a[i], K.type)]
           kept == SelectSeq(types, LAMBDA ty : IsThrow(ty) \/ Truthy(ty))
       IN  IF Len(kept) > 0
             THEN Join([i \in 1..Len(kept) |-> StringOf(kept[i])], <<"|">>)
           ELSE Str(S.union)

RECURSIVE getCompactType4(_)
getCompactType4(prop) ==
  IF ~Truthy(prop) \/ ~TypeofObject(prop) THEN Str(S.any)
  ELSE
  LET type == Get(prop, K.type)
      items == Get(prop, K.items)
      enum == Get(prop, K.enum)
      properties == Get(prop, K.properties)
      oneOf == Get(prop, K.oneOf)
      anyOf == Get(prop, K.anyOf)
      format == Get(prop, K.format)
      entries == ObjectEntries(properties)
  IN
  IF IsStr(type, S.array) THEN
    IF Truthy(items)
      THEN Cat(<<Str(S.arrayOpen), StringOf(getCompactType4(items)), Str(<<"]">>)>>)
    ELSE Str(S.arrayAny)
  ELSE IF Truthy(enum) /\ IsArray(enum) THEN
    IF Len(enum.a) <= ENUM_DISPLAY_THRESHOLD
      THEN Cat(<<Str(S.enumOpen),
                 Join([i \in 1..Len(enum.a) |-> EscapeElement(enum.a[i])], <<"|">>),
                 Str(<<")">>)>>)
    ELSE Str(S.enum)
  ELSE IF IsStr(type, S.object) THEN
    IF Truthy(properties) /\ ObjectKeysLength(properties) <= 2
      THEN Cat(<<Str(S.objectOpen),
                 Join([i \in 1..Len(entries) |->
                         Cat(<<Str(escapeXml(entries[i].key)), Str(<<":">>),
                               StringOf(getCompactType4(entries[i].val))>>)], <<",">>),
                 Str(<<"}">>)>>)
    ELSE Str(S.object)
  ELSE IF Truthy(oneOf) \/ Truthy(anyOf) THEN
    UnionTypes(IF Truthy(oneOf) THEN oneOf ELSE anyOf)
  ELSE IF IsStr(type, S.string) THEN
    IF IsStr(format, S.date) THEN Str(S.date)
    ELSE IF IsStr(format, S.dateTime) THEN Str(S.datetime)
    ELSE IF IsStr(format, S.email) THEN Str(S.email)
    ELSE IF IsStr(format, S.uri) \/ IsStr(format, S.url) THEN Str(S.url)
    ELSE IF IsStr(format, S.uuid) THEN Str(S.uuid)
    ELSE IF IsStr(format, S.ipv4) THEN Str(S.ipv4)
    ELSE IF IsStr(format, S.ipv6) THEN Str(S.ipv6)
    ELSE Str(S.string)
  ELSE IF IsStr(type, S.number) \/ IsStr(type, S.integer) THEN Str(S.number)
  ELSE IF IsStr(type, S.boolean) THEN Str(S.boolean)
  ELSE IF IsStr(type, S.null) THEN Str(S.null)
  ELSE IF Truthy(type) THEN type ELSE Str(S.any)

Params4(schema, entries) ==
  LET req == Get(schema, K.required)
      required == IF Truthy(req) THEN req ELSE Arr(<<>>)
  IN  Join([i \in 1..Len(entries) |->
              LET inc == Includes(required, entries[i].key)
              IN  IF IsThrow(inc) THEN Throw
                  ELSE Cat(<<Str(escapeXml(entries[i].key)),
                             Str(IF inc.b THEN <<"*">> ELSE <<"?">>), Str(<<":">>),
                             StringOf(getCompactType4(entries[i].val))>>)], S.commaSpace)

jsonSchemaToXml4(schema) ==
  IF ~Truthy(schema) \/ ~TypeofObject(schema) THEN Str(S.schemaOpen \o S.schemaClose)
  ELSE
  LET type == Get(schema, K.type)
      items == Get(schema, K.items)
      properties == Get(schema, K.properties)
  IN
  IF IsStr(type, S.array) /\ Truthy(items) THEN
    Cat(<<Str(S.schemaOpen), Str(S.arrayOpen), StringOf(getCompactType4(items)),
          Str(<<"]">>), Str(S.schemaClose)>>)
  ELSE IF ~Truthy(properties) \/ ObjectKeysLength(properties) = 0
    THEN Str(S.schemaOpen \o S.schemaClose)
  ELSE Cat(<<Str(S.schemaOpen), Params4(schema, ObjectEntries(properties)), Str(S.schemaClose)>>)

\* array.join(sep) of arbitrary elements: undefined and null give "".
JoinValues(a, sep) ==
  Join([i \in 1..Len(a) |->
          IF a[i].k \in {"undefined", "null"} THEN Str(<<>>) ELSE StringOf(a[i])], sep)

getCompactType3(prop) ==
  IF ~Truthy(prop) \/ ~TypeofObject(prop) THEN Str(S.any)
  ELSE
  LET type == Get(prop, K.type)
      items == Get(prop, K.items)
      \* prop.items?.type and prop.items?.enum
      itemsType == IF items.k \in {"undefined", "null"} THEN Undef ELSE Get(items, K.type)
      itemsEnum == IF items.k \in {"undefined", "null"} THEN Undef ELSE Get(items, K.enum)
      enum == Get(prop, K.enum)
      oneOf == Get(prop, K.oneOf)
      anyOf == Get(prop, K.anyOf)
      format == Get(prop, K.format)
  IN
  IF IsStr(type, S.array) THEN
    IF Truthy(itemsType) THEN Cat(<<Str(S.arrayOpen), StringOf(itemsType), Str(<<"]">>)>>)
    ELSE IF Truthy(itemsEnum) THEN Str(S.arrayOpen \o S.enum \o <<"]">>)
    ELSE Str(S.arrayAny)
  ELSE IF Truthy(enum) /\ IsArray(enum) THEN
    IF Len(enum.a) <= 3
      THEN Cat(<<Str(S.enumOpen), JoinValues(enum.a, <<"|">>), Str(<<")">>)>>)
    ELSE Str(S.enum)
  ELSE IF IsStr(type, S.object) THEN Str(S.object)
  ELSE IF Truthy(oneOf) \/ Truthy(anyOf) THEN
    UnionTypes(IF Truthy(oneOf) THEN oneOf ELSE anyOf)
  ELSE IF IsStr(type, S.string) THEN
    IF IsStr(format, S.date) THEN Str(S.date)
    ELSE IF IsStr(format, S.dateTime) THEN Str(S.datetime)
    ELSE IF IsStr(format, S.email) THEN Str(S.email)
    ELSE IF IsStr(format, S.uri) THEN Str(S.url)
    ELSE Str(S.string)
  ELSE IF IsStr(type, S.number) \/ IsStr(type, S.integer) THEN Str(S.number)
  ELSE IF IsStr(type, S.boolean) THEN Str(S.boolean)
  ELSE IF Truthy(type) THEN type ELSE Str(S.any)

jsonSchemaToXml3(schema) ==
  IF ~Truthy(schema) \/ ~TypeofObject(schema) THEN Str(S.schemaOpen \o S.schemaClose)
  ELSE
  LET properties == Get(schema, K.properties)
      req == Get(schema, K.required)
      required == IF Truthy(req) THEN req ELSE Arr(<<>>)
      entries == ObjectEntries(properties)
  IN
  IF ~Truthy(properties) \/ ObjectKeysLength(properties) = 0
    THEN Str(S.schemaOpen \o S.schemaClose)
  ELSE Cat(<<Str(S.schemaOpen),
             Join([i \in 1..Len(entries) |->
                     LET inc == Includes(required, entries[i].key)
                     IN  IF IsThrow(inc) THEN Throw
                         ELSE Cat(<<Str(entries[i].key),
                                    Str(IF inc.b THEN <<"*">> ELSE <<"?">>), Str(<<":">>),
                                    StringOf(getCompactType3(entries[i].val))>>)], S.commaSpace),
             Str(S.schemaClose)>>)

(***************************************************************************)
(* JSON.stringify(value, null, 2) and the metrics wrappers.                *)
(***************************************************************************)
Spaces(n) == [i \in 1..n |-> " "]

\* QuoteJSONString on the code units the model uses.
QuoteJSON(s) ==
  <<"\"">> \o Flatten([i \in 1..Len(s) |->
                         CASE s[i] = "\"" -> <<"\\", "\"">>
                           [] s[i] = "\\" -> <<"\\", "\\">>
                           [] s[i] = "NL" -> <<"\\", "n">>
                           [] OTHER -> <<s[i]>>]) \o <<"\"">>

RECURSIVE SerializeJSON(_, _)
\* SerializeJSONProperty with gap "  " at the given indentation: the text
\* as a sequence of code units, or <<"UNDEFINED">> for an undefined result.
SerializeJSON(v, indent) ==
  CASE v.k = "null" -> S.null
    [] v.k = "boolean" -> IF v.b THEN S.true ELSE S.false
    [] v.k = "number" -> NumToChars(v.n)
    [] v.k = "string" -> QuoteJSON(v.s)
    [] v.k = "array" ->
         IF Len(v.a) = 0 THEN <<"[", "]">>
         ELSE <<"[", "NL">>
                \o JoinChars([i \in 1..Len(v.a) |->
                     Spaces(indent + 2)
                       \o (IF v.a[i].k = "undefined" THEN S.null
                           ELSE SerializeJSON(v.a[i], indent + 2))], <<",", "NL">>)
                \o <<"NL">> \o Spaces(indent) \o <<"]">>
    [] v.k = "object" ->
         LET es == SelectSeq(ObjectEntries(v), LAMBDA e : e.val.k # "undefined")
         IN  IF Len(es) = 0 THEN <<"{", "}">>
             ELSE <<"{", "NL">>
                    \o JoinChars([i \in 1..Len(es) |->
                         Spaces(indent + 2) \o QuoteJSON(es[i].key) \o <<":", " ">>
                           \o SerializeJSON(es[i].val, indent + 2)], <<",", "NL">>)
                    \o <<"NL">> \o Spaces(indent) \o <<"}">>
    [] OTHER -> <<"UNDEFINED">>

\* JSON.stringify(value, null, 2): a string, or undefined for undefined.
JSONStringify(v) == IF v.k = "undefined" THEN Undef ELSE Str(SerializeJSON(v, 0))

CeilDiv(a, b) == (a + b - 1) \div b

\* The quotients num / den of [-1, 1] at which (num / den) * 100, exactly a
\* tie k + 1/2, is as a double just under the tie, so that Math.round gives k.
TiesBelow == {<<-11, 40>>, <<-7, 200>>, <<23, 40>>, <<29, 200>>, <<57, 200>>, <<113, 200>>}

\* Math.round((num / den) * 100), den > 0: the nearest integer, a tie towards
\* plus infinity, computed on the doubles of the source. A quotient under -1
\* (the unclamped variant, on a schema shorter than its encoding) has den < 8
\* and never meets a tie.
RoundPercent(num, den) ==
  LET exact == (200 * num + den) \div (2 * den)
  IN  IF \E t \in TiesBelow : num * t[2] = t[1] * den THEN exact - 1 ELSE exact

IsWhitespace(c) == c \in {" ", "NL"}

\* text.split(/\s+/).filter((w) => w.length > 0).length
WordCount(text) ==
  Cardinality({i \in 1..Len(text) :
                 ~IsWhitespace(text[i]) /\ (i = 1 \/ IsWhitespace(text[i - 1]))})

\* (text.match(/[{}[\],:]/g) || []).length
JsonTokenCount(text) ==
  Cardinality({i \in 1..Len(text) : text[i] \in {"{", "}", "[", "]", ",", ":"}})

\* estimateTokens of the second variant, on a string or undefined
estimateTokens4(text) ==
  IF ~Truthy(text) THEN 0
  ELSE IF Len(text.s) < 20 THEN CeilDiv(Len(text.s), 3)
  ELSE CeilDiv(13 * WordCount(text.s) + 5 * JsonTokenCount(text.s), 10)

\* reduction of a pair of token counts, clamped as in the second variant
Reduction4(originalTokens, compressedTokens) ==
  IF originalTokens > 0 /\ compressedTokens < originalTokens
    THEN RoundPercent(originalTokens - compressedTokens, originalTokens)
  ELSE 0

compressSchemaWithMetrics4(schema) ==
  LET originalJson == JSONStringify(schema)
      compressed == jsonSchemaToXml4(schema)
      originalTokens == estimateTokens4(originalJson)
      compressedTokens == estimateTokens4(compressed)
  IN  IF IsThrow(compressed) THEN Throw
      ELSE [k |-> "result", compressed |-> compressed.s,
            originalTokens |-> originalTokens, compressedTokens |-> compressedTokens,
            reduction |-> Reduction4(originalTokens, compressedTokens)]

\* The callback of tools.map with the two running totals it updates: acc is
\* [compressedTools, totalOriginalTokens, totalCompressedTokens].
BatchStep(acc, tool, result) ==
  IF IsThrow(acc) \/ IsThrow(result) THEN Throw
  ELSE [k |-> "totals",
        compressedTools |->
          Append(acc.compressedTools,
                 [name |-> Get(tool, K.name), compressedSchema |-> result.compressed]),
        totalOriginalTokens |-> acc.totalOriginalTokens + result.originalTokens,
        totalCompressedTokens |-> acc.totalCompressedTokens + result.compressedTokens]

BatchStart ==
  [k |-> "totals", compressedTools |-> <<>>, totalOriginalTokens |-> 0,
   totalCompressedTokens |-> 0]

RECURSIVE BatchLoop4(_, _)
BatchLoop4(acc, tools) ==
  IF Len(tools) = 0 THEN acc
  ELSE BatchLoop4(BatchStep(acc, Head(tools),
                            compressSchemaWithMetrics4(Get(Head(tools), K.inputSchema))),
                  Tail(tools))

RECURSIVE SumOfReductions4(_)
SumOfReductions4(tools) ==
  IF Len(tools) = 0 THEN 0
  ELSE compressSchemaWithMetrics4(Get(Head(tools), K.inputSchema)).reduction
         + SumOfReductions4(Tail(tools))

\* compressToolSchemas with the mean of the per-tool reductions as its
\* totalReduction.
compressToolSchemas4_MeanReduction(tools) ==
  LET end == BatchLoop4(BatchStart, tools.a)
  IN  IF IsThrow(end) THEN Throw
      ELSE [k |-> "batch",
            compressedTools |-> end.compressedTools,
            totalReduction |->
              IF Len(tools.a) = 0 THEN 0
              ELSE (2 * SumOfReductions4(tools.a) + Len(tools.a)) \div (2 * Len(tools.a)),
            originalTokens |-> end.totalOriginalTokens,
            compressedTokens |-> end.totalCompressedTokens]

\* tools is an array of tool descriptors
compressToolSchemas4(tools) ==
  LET end == BatchLoop4(BatchStart, tools.a)
  IN  IF IsThrow(end) THEN Throw
      ELSE [k |-> "batch",
            compressedTools |-> end.compressedTools,
            totalReduction |-> Reduction4(end.totalOriginalTokens, end.totalCompressedTokens),
            originalTokens |-> end.totalOriginalTokens,
            compressedTokens |-> end.totalCompressedTokens]

\* estimateTokens of the third variant: text.length is a TypeError on undefined
estimateTokens3(text) == IF text.k = "undefined" THEN Throw ELSE Num(CeilDiv(Len(text.s), 4))

Reduction3(originalTokens, compressedTokens) ==
  IF originalTokens > 0
    THEN RoundPercent(originalTokens - compressedTokens, originalTokens)
  ELSE 0

compressSchemaWithMetrics3(schema) ==
  LET originalJson == JSONStringify(schema)
      compressed == jsonSchemaToXml3(schema)
      originalTokens == estimateTokens3(originalJson)
      compressedTokens == estimateTokens3(compressed)
  IN  IF IsThrow(compressed) \/ IsThrow(originalTokens) THEN Throw
      ELSE [k |-> "result", compressed |-> compressed.s,
            originalTokens |-> originalTokens.n, compressedTokens |-> compressedTokens.n,
            reduction |-> Reduction3(originalTokens.n, compressedTokens.n)]

RECURSIVE BatchLoop3(_, _)
BatchLoop3(acc, tools) ==
  IF Len(tools) = 0 THEN acc
  ELSE BatchLoop3(BatchStep(acc, Head(tools),
                            compressSchemaWithMetrics3(Get(Head(tools), K.inputSchema))),
                  Tail(tools))

compressToolSchemas3(tools) ==
  LET end == BatchLoop3(BatchStart, tools.a)
  IN  IF IsThrow(end) THEN Throw
      ELSE [k |-> "batch",
            compressedTools |-> end.compressedTools,
            totalReduction |-> Reduction3(end.totalOriginalTokens, end.totalCompressedTokens),
            originalTokens |-> end.totalOriginalTokens,
            compressedTokens |-> end.totalCompressedTokens]

(***************************************************************************)
(* The OpenRouter handler: the choice of the upstream providers, the       *)
(* errors that trigger a failover and the provider routing of a request.   *)
(* The options of a handler are a record of JavaScript values.             *)
(***************************************************************************)
\* The name that stands for OpenRouter's own routing.
OPENROUTER_DEFAULT_PROVIDER_NAME == <<"[", "d", "e", "f", "a", "u", "l", "t", "]">>

\* The callback of openRouterProviders.filter
KeepProvider(provider) ==
  Truthy(provider) /\ ~IsStr(provider, OPENROUTER_DEFAULT_PROVIDER_NAME)

\* getProvidersToUse with the legacy single provider taking precedence.
getProvidersToUse_LegacyFirst(options) ==
  LET providers == options.openRouterProviders
      specific == options.openRouterSpecificProvider
  IN  IF Truthy(specific) /\ ~IsStr(specific, OPENROUTER_DEFAULT_PROVIDER_NAME)
        THEN Arr(<<specific>>)
      ELSE IF Truthy(providers) /\ LengthGT(providers, 0)
        THEN Arr(SelectSeq(providers.a, KeepProvider))
      ELSE Arr(<<>>)

getProvidersToUse(options) ==
  LET providers == options.openRouterProviders
      specific == options.openRouterSpecificProvider
  IN  IF Truthy(providers) /\ LengthGT(providers, 0)
        THEN IF IsArray(providers) THEN Arr(SelectSeq(providers.a, KeepProvider)) ELSE Throw
      ELSE IF Truthy(specific) /\ ~IsStr(specific, OPENROUTER_DEFAULT_PROVIDER_NAME)
        THEN Arr(<<specific>>)
      ELSE Arr(<<>>)

UpperCaseLetters ==
  <<"A", "B", "C", "D", "E", "F", "G", "H", "I", "J", "K", "L", "M", "N", "O", "P", "Q", "R", "S", "T", "U", "V", "W", "X", "Y", "Z">>

LowerCaseLetters ==
  <<"a", "b", "c", "d", "e", "f", "g", "h", "i", "j", "k", "l", "m", "n", "o", "p", "q", "r", "s", "t", "u", "v", "w", "x", "y", "z">>

\* String.prototype.toLowerCase on the code units the model uses.
ToLowerCase(text) ==
  LET upperCase == UpperCaseLetters
      lowerCase == LowerCaseLetters
  IN  [i \in 1..Len(text) |->
         IF \E n \in 1..26 : upperCase[n] = text[i]
           THEN lowerCase[CHOOSE n \in 1..26 : upperCase[n] = text[i]]
         ELSE text[i]]

\* String.prototype.includes
StringIncludes(text, pattern) ==
  \E i \in 0..(Len(text) - Len(pattern)) : SubSeq(text, i + 1, i + Len(pattern)) = pattern

contextErrorPatterns ==
  << <<"c", "o", "n", "t", "e", "x", "t", " ", "l", "e", "n", "g", "t", "h">>,
     <<"c", "o", "n", "t", "e", "x", "t", " ", "w", "i", "n", "d", "o", "w">>,
     <<"m", "a", "x", "i", "m", "u", "m", " ", "c", "o", "n", "t", "e", "x", "t">>,
     <<"t", "o", "k", "e", "n", "s", " ", "e", "x", "c", "e", "e", "d">>,
     <<"t", "o", "o", " ", "m", "a", "n", "y", " ", "t", "o", "k", "e", "n", "s">>,
     <<"i", "n", "p", "u", "t", " ", "t", "o", "k", "e", "n", "s", " ", "e", "x", "c", "e", "e", "d">> >>

\* error.message?.toLowerCase() || ""
LoweredMessage(message) ==
  CASE message.k \in {"undefined", "null"} -> Str(<<>>)
    [] message.k = "string" -> Str(ToLowerCase(message.s))
    [] OTHER -> Throw

\* error.message?.includes("timeout")
MessageIncludesTimeout(message) ==
  CASE message.k \in {"undefined", "null"} -> Undef
    [] message.k = "string" -> Bool(StringIncludes(message.s, S.timeout))
    [] message.k = "array" -> Bool(\E i \in 1..Len(message.a) : IsStr(message.a[i], S.timeout))
    [] OTHER -> Throw

\* The branch of status 400: some pattern occurs in the lowered message.
ContextWindowError(message) ==
  IF IsThrow(message) THEN Throw
  ELSE Bool(\E n \in 1..Len(contextErrorPatterns) :
              StringIncludes(message.s, contextErrorPatterns[n]))

\* shouldFailover without the toLowerCase of the message.
shouldFailover_CaseSensitive(error) ==
  IF ~Truthy(error) THEN Bool(FALSE)
  ELSE IF error.status = Num(429) THEN Bool(TRUE)
  ELSE IF error.status = Num(503) \/ error.status = Num(502) THEN Bool(TRUE)
  ELSE IF error.status = Num(400) THEN
    ContextWindowError(IF error.message.k = "string" THEN error.message ELSE Str(<<>>))
  ELSE IF IsStr(error.code, S.ECONNABORTED) THEN Bool(TRUE)
  ELSE LET inc == MessageIncludesTimeout(error.message)
       IN  IF IsThrow(inc) THEN Throw ELSE Bool(Truthy(inc))

shouldFailover(error) ==
  IF ~Truthy(error) THEN Bool(FALSE)
  ELSE IF error.status = Num(429) THEN Bool(TRUE)
  ELSE IF error.status = Num(503) \/ error.status = Num(502) THEN Bool(TRUE)
  ELSE IF error.status = Num(400) THEN ContextWindowError(LoweredMessage(error.message))
  ELSE IF IsStr(error.code, S.ECONNABORTED) THEN Bool(TRUE)
  ELSE LET inc == MessageIncludesTimeout(error.message)
       IN  IF IsThrow(inc) THEN Throw ELSE Bool(Truthy(inc))

\* ...(v && { name: v }): the property is set when v is truthy.
SpreadIf(cond, v) == IF Truthy(cond) THEN v ELSE Undef

\* ProviderRouting that never drops the providers already tried.
ProviderRouting_WholeList(providers, providerIndex) ==
  LET length == Len(providers.a)
      last == IF providerIndex < length - 1 THEN providerIndex ELSE length - 1
  IN  IF length > 0 THEN
        IF length = 1 \/ providerIndex >= length - 1
          THEN [order |-> Arr(<<providers.a[last + 1]>>),
                only |-> Arr(<<providers.a[last + 1]>>),
                allow_fallbacks |-> Bool(FALSE)]
        ELSE [order |-> providers, only |-> providers, allow_fallbacks |-> Bool(TRUE)]
      ELSE Undef

\* params.provider as createCompletionParams sets it; undefined when it does
\* not.  providers[Math.min(providerIndex, providers.length - 1)] and
\* providers.slice(providerIndex) for an index that is not negative.
ProviderRouting(providers, providerIndex) ==
  LET length == Len(providers.a)
      last == IF providerIndex < length - 1 THEN providerIndex ELSE length - 1
      remainingProviders == Arr(SubSeq(providers.a, providerIndex + 1, length))
  IN  IF length > 0 THEN
        IF length = 1 \/ providerIndex >= length - 1
          THEN [order |-> Arr(<<providers.a[last + 1]>>),
                only |-> Arr(<<providers.a[last + 1]>>),
                allow_fallbacks |-> Bool(FALSE)]
        ELSE [order |-> remainingProviders,
              only |-> remainingProviders,
              allow_fallbacks |-> Bool(TRUE)]
      ELSE Undef

\* The arguments are the fields of a: modelId, maxTokens, temperature, topP,
\* openAiMessages, transforms, reasoning, providers, providerIndex.
createCompletionParams(a) ==
  [k |-> "params",
   model |-> a.modelId,
   max_tokens |-> SpreadIf(Bool(Truthy(a.maxTokens) /\ a.maxTokens.n > 0), a.maxTokens),
   temperature |-> a.temperature,
   top_p |-> a.topP,
   messages |-> a.openAiMessages,
   stream |-> Bool(TRUE),
   stream_options |-> [include_usage |-> Bool(TRUE)],
   transforms |-> SpreadIf(a.transforms, a.transforms),
   reasoning |-> SpreadIf(a.reasoning, a.reasoning),
   provider |-> ProviderRouting(a.providers, a.providerIndex)]

\* ...(specificProvider && { provider: { order: [specificProvider], only:
\* [specificProvider], allow_fallbacks: false } }): the routing of the
\* requests that name one provider; undefined when none is named.
SpecificRouting(specificProvider) ==
  IF Truthy(specificProvider)
    THEN [order |-> Arr(<<specificProvider>>),
          only |-> Arr(<<specificProvider>>),
          allow_fallbacks |-> Bool(FALSE)]
  ELSE Undef

\* new Error(`OpenRouter API Error ${error?.code}: ${error?.message}`): the
\* error raised for an error object that arrives in a chunk or a response.
ApiError(error) ==
  [k |-> "error", status |-> Undef, code |-> Undef,
   message |-> Cat(<<Str(S.apiError), StringOf(error.code), Str(S.colonSpace),
                     StringOf(error.message)>>)]

(***************************************************************************)
(* The W&B handler: the removal of thinking blocks from the history and    *)
(* the lines of a streamed response body.  A line feed is the character    *)
(* "NL".                                                                   *)
(***************************************************************************)
\* String.prototype.trim
Trim(text) ==
  LET kept == {i \in 1..Len(text) : ~IsWhitespace(text[i])}
  IN  IF kept = {} THEN <<>>
      ELSE SubSeq(text, CHOOSE i \in kept : \A j \in kept : i <= j,
                        CHOOSE i \in kept : \A j \in kept : i >= j)

RECURSIVE ReplaceThinkBlocks(_)
\* text.replace(/<think>[\s\S]*?<\/think>/g, ""): from the left, each
\* "<think>" with a "</think>" after it is removed up to the first such
\* "</think>", and the search goes on after the text removed.
ReplaceThinkBlocks(text) ==
  LET IndexOf(pattern, from) ==
        LET I == {i \in from..(Len(text) - Len(pattern) + 1) :
                    SubSeq(text, i, i + Len(pattern) - 1) = pattern}
        IN  IF I = {} THEN 0 ELSE CHOOSE i \in I : \A j \in I : i <= j
      open == IndexOf(S.thinkOpen, 1)
      close == IF open = 0 THEN 0 ELSE IndexOf(S.thinkClose, open + Len(S.thinkOpen))
  IN  IF close = 0 THEN text
      ELSE SubSeq(text, 1, open - 1)
             \o ReplaceThinkBlocks(SubSeq(text, close + Len(S.thinkClose), Len(text)))

stripThinkingTokens(text) ==
  IF text.k = "string" THEN Str(Trim(ReplaceThinkBlocks(text.s))) ELSE Throw

RECURSIVE SplitLines(_)
\* buffer.split("\n")
SplitLines(text) ==
  LET I == {i \in 1..Len(text) : text[i] = "NL"}
      first == CHOOSE i \in I : \A j \in I : i <= j
  IN  IF I = {} THEN <<text>>
      ELSE <<SubSeq(text, 1, first - 1)>> \o SplitLines(SubSeq(text, first + 1, Len(text)))

\* The body of for (const line of lines): the texts given to JSON.parse, in
\* order.  A blank line, a line that does not start with "data: " and the
\* line "data: [DONE]" give none.
ParsedOf(lines) ==
  Flatten([i \in 1..Len(lines) |->
    LET line == lines[i]
        jsonStr == Trim(SubSeq(line, Len(S.data) + 1, Len(line)))
    IN  IF Trim(line) = <<>> THEN <<>>
        ELSE IF Len(line) >= Len(S.data) /\ SubSeq(line, 1, Len(S.data)) = S.data
          THEN IF jsonStr = S.DONE THEN <<>> ELSE <<jsonStr>>
        ELSE <<>>])

(***************************************************************************)
(* The inputs the functions are applied to.                                *)
(***************************************************************************)
\* The longest enum array.
MaxEnumLen == 4
\* The most properties of a root schema's properties map.
MaxProps == 2
\* The most members of a oneOf/anyOf/allOf array and items of a tuple.
MaxMembers == 2
\* The most tools of a batch.
MaxTools == 2

SeqsUpTo(X, n) == UNION {[1..m -> X] : m \in 0..n}

\* An object literal: the entries whose value is not undefined, in order.
Node(es) == Obj(SelectSeq(es, LAMBDA e : e.val.k # "undefined"))

\* The texts of the inputs: property names, values, provider names, a message.
Text ==
  [ a |-> <<"a">>,
    b |-> <<"b">>,
    ltAmp |-> <<"<", "&">>,
    quotes |-> <<"\"", "'", ">">>,
    long |-> <<"^", "[", "a", "-", "z", "]", "+", "@", "<", "x", ">", "$">>,
    requirements |-> <<"r", "e", "q", "u", "i", "r", "e", "m", "e", "n", "t", "s">>,
    scale |-> <<"s", "c", "a", "l", "e">>,
    query |-> <<"q", "u", "e", "r", "y">>,
    description |-> <<"T", "h", "e", " ", "s", "e", "a", "r", "c", "h", " ", "q", "u", "e", "r", "y">>,
    provider1 |-> <<"p", "r", "o", "v", "i", "d", "e", "r", "1">>,
    provider2 |-> <<"p", "r", "o", "v", "i", "d", "e", "r", "2">>,
    single |-> <<"s", "i", "n", "g", "l", "e", "-", "p", "r", "o", "v", "i", "d", "e", "r">>,
    upperContext |-> <<"M", "a", "x", "i", "m", "u", "m", " ", "C", "o", "n", "t", "e", "x", "t", " ", "r", "e", "a", "c", "h", "e", "d">>,
    rateLimit |-> <<"R", "a", "t", "e", " ", "l", "i", "m", "i", "t", " ", "e", "x", "c", "e", "e", "d", "e", "d">>,
    unauthorized |-> <<"U", "n", "a", "u", "t", "h", "o", "r", "i", "z", "e", "d">>,
    gatewayTimeout |-> <<"G", "a", "t", "e", "w", "a", "y", " ", "t", "i", "m", "e", "o", "u", "t">> ]

\* Literal values of const, default and enum elements.
StringVals == {Str(Text.a), Str(Text.b), Str(Text.ltAmp), Str(Text.quotes)}
LeafVals == StringVals \cup {Num(5), Num(0), Bool(TRUE), Null}

\* Values that are not schema objects.
NonObjects == {Undef, Null, Str(Text.a), Str(<<>>), Num(0), Num(5), Bool(TRUE), Arr(<<>>)}

FormatVals ==
  {Undef, Str(S.date), Str(S.dateTime), Str(S.email), Str(S.uri), Str(S.url),
   Str(S.uuid), Str(S.ipv4), Str(S.ipv6), Str(Text.a), Num(5)}

StringNodes ==
  {Node(<<Ent(K.type, Str(S.string)), Ent(K.format, f)>>) : f \in FormatVals}
  \cup
  {Node(<<Ent(K.type, Str(S.string)), Ent(K.format, f), Ent(K.minLength, lo),
          Ent(K.maxLength, hi), Ent(K.pattern, pat), Ent(K.default, d)>>) :
     f \in {Undef, Str(S.email)}, lo \in {Undef, Num(0), Num(3)}, hi \in {Undef, Num(12)},
     pat \in {Undef, Str(Text.a), Str(Text.ltAmp), Str(Text.long), Str(<<>>), Num(5)},
     d \in {Undef, Null, Str(Text.a), Str(Text.quotes), Num(5)}}

NumberNodes ==
  {Node(<<Ent(K.type, ty), Ent(K.minimum, lo), Ent(K.maximum, hi),
          Ent(K.multipleOf, m), Ent(K.default, d)>>) :
     ty \in {Str(S.number), Str(S.integer)}, lo \in {Undef, Num(0), Num(-3)},
     hi \in {Undef, Num(10), Str(Text.ltAmp)}, m \in {Undef, Num(2)},
     d \in {Undef, Null, Num(4), Str(Text.ltAmp)}}

OtherTypeNodes ==
  {Node(<<Ent(K.type, ty), Ent(K.default, d)>>) :
     ty \in {Undef, Null, Str(S.boolean), Str(S.null), Str(Text.a), Str(Text.ltAmp), Str(<<>>),
             Num(5), Arr(<<Str(S.string), Str(S.null)>>)},
     d \in {Undef, Null, Bool(FALSE), Str(Text.ltAmp)}}

ConstNodes ==
  {Node(<<Ent(K.type, ty), Ent(K.const, c), Ent(K.enum, e)>>) :
     ty \in {Undef, Str(S.string), Str(S.array)},
     c \in LeafVals \cup {Arr(<<Str(Text.a), Null, Num(5)>>), Obj(<<>>)},
     e \in {Undef, Arr(<<Str(Text.a)>>)}}

EnumArrays == {Arr(vs) : vs \in SeqsUpTo({Str(Text.a), Str(Text.ltAmp)}, MaxEnumLen)}
\* Enums the declared type string[] excludes.
OddEnums ==
  {Null, Str(Text.a), Str(<<"a", "b", "c", "d">>), Num(5), Obj(<<>>), Arr(<<Null>>),
   Arr(<<Str(Text.a), Num(5)>>), Arr(<<Bool(TRUE), Str(Text.quotes)>>),
   Arr(<<Num(1), Num(2), Num(3), Null>>)}

EnumNodes ==
  {Node(<<Ent(K.type, ty), Ent(K.enum, e)>>) :
     ty \in {Undef, Str(S.string), Str(S.array)}, e \in EnumArrays \cup OddEnums}

\* Nested schemas: the items of arrays, the values of nested properties and
\* the members of unions.
SubNodes ==
  {Null, Str(Text.a),
   Node(<<Ent(K.type, Str(S.string))>>),
   Node(<<Ent(K.type, Str(S.number)), Ent(K.minimum, Num(1))>>),
   Node(<<Ent(K.enum, Arr(<<Str(Text.a), Str(Text.ltAmp)>>))>>),
   Node(<<Ent(K.type, Str(S.array)), Ent(K.items, Node(<<Ent(K.type, Str(S.number))>>))>>),
   Node(<<Ent(K.type, Str(S.object)),
          Ent(K.properties, Obj(<<Ent(Text.a, Node(<<Ent(K.type, Str(S.boolean))>>))>>))>>)}

\* The members of the longer tuples, unions and allOf arrays.
CoreNodes ==
  {Null,
   Node(<<Ent(K.type, Str(S.string))>>),
   Node(<<Ent(K.type, Str(S.number)), Ent(K.minimum, Num(1))>>),
   Node(<<Ent(K.enum, Arr(<<Str(Text.a), Str(Text.ltAmp)>>))>>)}

\* {type: "array", items: {type: "array", items: {type: "number"}}}
ArrayOfArrays ==
  Node(<<Ent(K.type, Str(S.array)),
         Ent(K.items, Node(<<Ent(K.type, Str(S.array)),
                             Ent(K.items, Node(<<Ent(K.type, Str(S.number))>>))>>))>>)

ArrayNodes ==
  {Node(<<Ent(K.type, Str(S.array)), Ent(K.items, it), Ent(K.minItems, lo),
          Ent(K.maxItems, hi)>>) :
     it \in {Undef, Bool(FALSE), Node(<<Ent(K.const, Null)>>), ArrayOfArrays} \cup SubNodes
            \cup {Arr(ms) : ms \in SeqsUpTo(CoreNodes, MaxMembers)},
     lo \in {Undef, Num(0), Num(2)}, hi \in {Undef, Num(0), Num(7)}}

PropKeys == {Text.a, Text.ltAmp, <<"1">>}

\* The keys are distinct and in the order in which an object holds them:
\* array indices first and ascending.
IsOwnKeyOrder(ks) ==
  \A i, j \in 1..Len(ks) :
    i < j => /\ ks[i] # ks[j]
             /\ IsArrayIndex(ks[j]) =>
                  (IsArrayIndex(ks[i]) /\ KeyNum(ks[i]) < KeyNum(ks[j]))

\* The properties maps of at most n entries.
PropMaps(vals, n) ==
  {Obj([i \in 1..Len(ks) |-> Ent(ks[i], vs[i])]) :
     <<ks, vs>> \in UNION {{kv \in [1..m -> PropKeys] \X [1..m -> vals] :
                              IsOwnKeyOrder(kv[1])} : m \in 0..n}}

ObjectNodes ==
  {Node(<<Ent(K.type, Str(S.object)), Ent(K.properties, ps)>>) :
     ps \in {Undef, Null, Str(Text.a), Str(<<"a", "b", "c">>)}
            \cup PropMaps({Null, Node(<<Ent(K.type, Str(S.string))>>),
                           Node(<<Ent(K.const, Null)>>)}, 3)}

UnionMembers ==
  SubNodes
  \cup {Node(<<Ent(K.enum, Arr(<<Str(Text.a), Str(Text.b), Str(Text.a), Str(Text.ltAmp)>>))>>),
        Node(<<Ent(K.enum, Str(<<"a", "b", "c", "d">>))>>),
        Node(<<Ent(K.enum, Str(Text.a))>>),
        Node(<<Ent(K.enum, Obj(<<>>))>>),
        Node(<<Ent(K.type, Str(S.integer)), Ent(K.minimum, Num(0)), Ent(K.maximum, Num(10))>>),
        Node(<<Ent(K.type, Str(S.integer))>>),
        Node(<<Ent(K.type, Str(S.number)), Ent(K.minimum, Num(0)), Ent(K.multipleOf, Num(2)),
               Ent(K.default, Num(4))>>),
        Node(<<Ent(K.enum, Arr(<<Str(Text.a), Null>>))>>),
        Node(<<Ent(K.type, Str(<<>>))>>),
        Node(<<Ent(K.type, Str(S.object))>>),
        Node(<<Ent(K.type, Str(S.object)), Ent(K.properties, Obj(<<>>))>>),
        Node(<<Ent(K.type, Str(S.object)),
               Ent(K.properties, Obj(<<Ent(Text.a, Null), Ent(Text.b, Null), Ent(<<"c">>, Null)>>))>>),
        Node(<<Ent(K.oneOf, Arr(<<Node(<<Ent(K.type, Str(S.string))>>),
                                  Node(<<Ent(K.type, Str(S.null))>>)>>))>>),
        Node(<<Ent(K.allOf, Arr(<<Node(<<Ent(K.properties,
                 Obj(<<Ent(Text.a, Node(<<Ent(K.type, Str(S.string))>>))>>))>>)>>))>>)}

UnionNodes ==
  {Node(<<Ent(K.oneOf, one), Ent(K.anyOf, any)>>) :
     <<one, any>> \in
       ({Arr(ms) : ms \in SeqsUpTo(UnionMembers, 1) \cup SeqsUpTo(CoreNodes, MaxMembers)}
          \X {Undef})
       \cup ({Undef, Arr(<<>>)} \X {Arr(ms) : ms \in SeqsUpTo(SubNodes, 1)})
       \cup ({Str(Text.a), Obj(<<>>), Num(5)} \X {Undef})
       \cup ({Undef} \X {Str(Text.a), Obj(<<>>)})}

AllOfMembers ==
  {Null, Str(Text.a), Obj(<<>>), Node(<<Ent(K.properties, Str(Text.b))>>),
   Node(<<Ent(K.properties, Obj(<<Ent(Text.a, Node(<<Ent(K.type, Str(S.boolean))>>))>>)),
          Ent(K.required, Arr(<<Str(Text.a)>>))>>)}
  \cup {Node(<<Ent(K.properties, Obj(<<Ent(key, Node(<<Ent(K.type, Str(ty))>>))>>))>>) :
          key \in {Text.a, <<"1">>}, ty \in {S.string, S.number}}

AllOfNodes ==
  {Node(<<Ent(K.type, ty), Ent(K.allOf, all)>>) :
     ty \in {Undef, Str(S.object)},
     all \in {Arr(ms) : ms \in SeqsUpTo(AllOfMembers, MaxMembers)} \cup {Str(Text.a), Obj(<<>>)}}

\* Nodes with several of the fields getCompactType dispatches on.
MixedNodes ==
  {Node(<<Ent(K.type, ty), Ent(K.const, c), Ent(K.enum, e), Ent(K.allOf, all),
          Ent(K.oneOf, one), Ent(K.anyOf, any), Ent(K.properties, ps)>>) :
     ty \in {Undef, Str(S.array), Str(S.object), Str(S.string)},
     c \in {Undef, Null, Str(Text.a)},
     e \in {Undef, Arr(<<Str(Text.a), Str(Text.b)>>)},
     all \in {Undef, Arr(<<Node(<<Ent(K.properties,
                 Obj(<<Ent(Text.b, Node(<<Ent(K.type, Str(S.number))>>))>>))>>)>>)},
     one \in {Undef, Arr(<<Node(<<Ent(K.type, Str(S.string))>>),
                           Node(<<Ent(K.type, Str(S.null))>>)>>)},
     any \in {Undef, Arr(<<Node(<<Ent(K.type, Str(S.boolean))>>)>>)},
     ps \in {Undef, Obj(<<Ent(Text.a, Node(<<Ent(K.type, Str(S.string))>>))>>)}}

\* The arguments of getCompactType.
PropInputs ==
  NonObjects \cup MixedNodes \cup StringNodes \cup NumberNodes \cup OtherTypeNodes \cup ConstNodes
    \cup EnumNodes \cup ArrayNodes \cup ObjectNodes \cup UnionNodes \cup AllOfNodes

\* The values of the properties of a root schema.
RootVals ==
  {Null, Arr(<<>>),
   Node(<<Ent(K.type, Str(S.string))>>),
   Node(<<Ent(K.type, Str(S.number)), Ent(K.minimum, Num(1))>>),
   Node(<<Ent(K.enum, Arr(<<Str(Text.a), Str(Text.ltAmp)>>))>>)}

RequiredVals ==
  {Undef, Arr(<<Str(Text.a)>>), Arr(<<Str(Text.ltAmp), Str(Text.b)>>),
   Arr(<<Str(<<"1">>), Str(Text.a), Null, Str(Text.ltAmp)>>)}

\* The maps of nested properties of an object-typed property.
NestedMaps ==
  {Obj([i \in 1..Len(ks) |-> Ent(ks[i], Node(<<Ent(K.type, Str(tys[i]))>>))]) :
     <<ks, tys>> \in
       UNION {{kt \in [1..m -> {K.description, Text.scale, Text.a}] \X [1..m -> {S.string, S.number}] :
                 \A i, j \in 1..m : i # j => kt[1][i] # kt[1][j]} : m \in 0..3}}

\* Root schemas with one property of type "object" that nests properties.
NestedObjectSchemas ==
  {Node(<<Ent(K.type, Str(S.object)),
          Ent(K.properties, Obj(<<Ent(Text.requirements,
                                      Node(<<Ent(K.type, Str(S.object)),
                                             Ent(K.properties, ps)>>))>>)),
          Ent(K.required, r)>>) :
     ps \in NestedMaps, r \in {Undef, Arr(<<Str(Text.requirements)>>)}}

\* The arguments of jsonSchemaToXml.
RootSchemas ==
  NonObjects
  \cup NestedObjectSchemas
  \cup {Node(<<Ent(K.type, ty), Ent(K.properties, ps)>>) :
          ty \in {Undef, Str(S.object), Str(S.array)},
          ps \in {Undef, Null, Str(<<"x">>), Num(5), Arr(<<>>), Obj(<<>>),
                  Obj(<<Ent(<<"f">>, Arr(<<>>))>>)}}
  \cup {Node(<<Ent(K.type, Str(S.object)), Ent(K.properties, ps), Ent(K.required, r)>>) :
          ps \in PropMaps(RootVals, MaxProps), r \in RequiredVals}
  \cup {Node(<<Ent(K.properties, Obj(<<Ent(Text.a, v)>>)), Ent(K.required, r)>>) :
          v \in PropInputs, r \in {Arr(<<Str(Text.a)>>)}}
  \cup {Node(<<Ent(K.type, Str(S.array)), Ent(K.items, it), Ent(K.minItems, lo),
               Ent(K.properties, ps), Ent(K.required, r)>>) :
          it \in {Null, Bool(FALSE), Node(<<Ent(K.const, Null)>>)} \cup SubNodes
                 \cup {Arr(ms) : ms \in SeqsUpTo(CoreNodes, MaxMembers)},
          lo \in {Undef, Num(2)},
          ps \in {Undef, Obj(<<Ent(Text.a, Node(<<Ent(K.type, Str(S.string))>>))>>)},
          r \in {Undef, Arr(<<Str(Text.a)>>)}}
  \cup {Node(<<Ent(K.allOf, all), Ent(K.properties, ps), Ent(K.required, r)>>) :
          all \in {Arr(ms) : ms \in SeqsUpTo(AllOfMembers, MaxMembers)}
                  \cup {Str(Text.a), Obj(<<>>)},
          ps \in {Undef, Obj(<<Ent(Text.b, Node(<<Ent(K.type, Str(S.boolean))>>))>>)},
          r \in {Undef, Arr(<<Str(Text.a)>>)}}

\* The schemas whose metrics are computed.
MetricVals ==
  {Node(<<>>),
   Node(<<Ent(K.type, Str(S.string))>>),
   Node(<<Ent(K.type, Str(S.string)), Ent(K.description, Str(Text.description))>>),
   Node(<<Ent(K.type, Str(S.number)), Ent(K.description, Str(Text.description)),
          Ent(K.minimum, Num(1))>>),
   Node(<<Ent(K.enum, Arr(<<Str(Text.a), Str(Text.b), Str(Text.query), Str(Text.description)>>))>>)}

MetricMaps ==
  {Obj([i \in 1..Len(ks) |-> Ent(ks[i], vs[i])]) :
     <<ks, vs>> \in UNION {{kv \in [1..m -> {Text.a, Text.query}] \X [1..m -> MetricVals] :
                              \A i, j \in 1..m : i # j => kv[1][i] # kv[1][j]} : m \in 0..2}}

MetricSchemas ==
  {Undef, Null, Obj(<<>>), Str(Text.a), Arr(<<>>),
   Node(<<Ent(K.properties, Obj(<<Ent(Text.a, Node(<<Ent(K.enum, Arr(<<Num(5)>>))>>))>>))>>)}
  \cup {Node(<<Ent(K.type, ty), Ent(K.properties, ps), Ent(K.required, r)>>) :
          ty \in {Undef, Str(S.object)}, ps \in MetricMaps,
          r \in {Undef, Arr(<<Str(Text.query)>>)}}

ToolSchemas ==
  {Undef, Null, Obj(<<>>),
   Node(<<Ent(K.properties, Obj(<<Ent(Text.a, Node(<<Ent(K.enum, Arr(<<Num(5)>>))>>))>>))>>),
   Node(<<Ent(K.properties, Obj(<<Ent(Text.a, Node(<<>>))>>))>>),
   Node(<<Ent(K.type, Str(S.object)),
          Ent(K.properties, Obj(<<Ent(Text.query, Node(<<Ent(K.type, Str(S.string)),
                                        Ent(K.description, Str(Text.description))>>))>>)),
          Ent(K.required, Arr(<<Str(Text.query)>>))>>),
   Node(<<Ent(K.type, Str(S.object)),
          Ent(K.properties, Obj(<<Ent(Text.query, Node(<<Ent(K.type, Str(S.string))>>)),
                                  Ent(Text.a, Node(<<Ent(K.type, Str(S.number)),
                                        Ent(K.description, Str(Text.description))>>))>>))>>)}

Tools ==
  {Node(<<Ent(K.name, Str(n)), Ent(K.inputSchema, s)>>) :
     n \in {Text.a, Text.query}, s \in ToolSchemas}

ToolLists == {Arr(ts) : ts \in SeqsUpTo(Tools, MaxTools)}

\* The most entries of openRouterProviders.
MaxProviders == 3

\* The entries of a configured provider list.
ProviderNames ==
  {Str(Text.provider1), Str(Text.provider2), Str(OPENROUTER_DEFAULT_PROVIDER_NAME), Str(<<>>)}

\* The options of a handler that getProvidersToUse reads.
HandlerOptions ==
  [k : {"options"},
   openRouterProviders : {Undef} \cup {Arr(ps) : ps \in SeqsUpTo(ProviderNames, MaxProviders)},
   openRouterSpecificProvider :
     {Undef, Str(<<>>), Str(Text.single), Str(OPENROUTER_DEFAULT_PROVIDER_NAME)}]

\* The messages of an error: absent, null, or a text.
ErrorMessages ==
  {Undef, Null, Str(<<>>), Str(S.timeout), Str(Text.upperContext),
   Str(Text.rateLimit),
   Str(<<"c", "o", "n", "t", "e", "x", "t", " ", "l", "e", "n", "g", "t", "h", " ", "e", "x", "c", "e", "e", "d", "e", "d">>),
   Str(<<"m", "a", "x", "i", "m", "u", "m", " ", "c", "o", "n", "t", "e", "x", "t", " ", "w", "i", "n", "d", "o", "w", " ", "r", "e", "a", "c", "h", "e", "d">>),
   Str(<<"t", "o", "o", " ", "m", "a", "n", "y", " ", "t", "o", "k", "e", "n", "s", " ", "i", "n", " ", "r", "e", "q", "u", "e", "s", "t">>),
   Str(<<"i", "n", "p", "u", "t", " ", "t", "o", "k", "e", "n", "s", " ", "e", "x", "c", "e", "e", "d", " ", "l", "i", "m", "i", "t">>),
   Str(<<"T", "o", "k", "e", "n", "s", " ", "E", "x", "c", "e", "e", "d", " ", "t", "h", "e", " ", "l", "i", "m", "i", "t">>),
   Str(<<"c", "o", "n", "t", "e", "x", "t">>),
   Str(<<"t", "i", "m", "e", "o", "u", "t", " ", "e", "r", "r", "o", "r", " ", "o", "c", "c", "u", "r", "r", "e", "d">>),
   Str(<<"R", "e", "q", "u", "e", "s", "t", " ", "T", "i", "m", "e", "o", "u", "t">>),
   Str(<<"I", "n", "v", "a", "l", "i", "d", " ", "r", "e", "q", "u", "e", "s", "t", " ", "f", "o", "r", "m", "a", "t">>)}

\* The errors shouldFailover is asked about.
Errors ==
  {Undef, Null}
  \cup [k : {"error"},
        status : {Undef, Num(400), Num(401), Num(429), Num(500), Num(502), Num(503),
                  Str(<<"4", "2", "9">>)},
        code : {Undef, Str(S.ECONNABORTED), Str(<<"E", "T", "I", "M", "E", "D", "O", "U", "T">>)},
        message : ErrorMessages]

\* The arguments of createCompletionParams: a list of providers as
\* getProvidersToUse returns them and the index of the attempt.
CompletionArgs ==
  [k : {"arguments"},
   modelId : {Str(Text.a)},
   maxTokens : {Undef, Num(0), Num(4096)},
   temperature : {Undef},
   topP : {Undef},
   openAiMessages : {Arr(<<>>)},
   transforms : {Undef, Arr(<<>>)},
   reasoning : {Undef},
   providers : {Arr(ps) : ps \in SeqsUpTo({Str(Text.provider1), Str(Text.provider2), Str(Text.single)},
                                          MaxProviders)},
   providerIndex : 0..MaxProviders]

\* The most text and reasoning chunks one call delivers.
MaxChunks == 2

\* The options of a handler that createMessage and completePrompt read: a
\* provider list of up to MaxProviders names, or one led by the default
\* name, the legacy single provider and the failover switch.
FailoverOptions ==
  [k : {"options"},
   openRouterProviders :
     {Undef, Arr(<<Str(OPENROUTER_DEFAULT_PROVIDER_NAME), Str(Text.provider1)>>)}
     \cup {Arr([i \in 1..n |->
                  Str(<<Text.provider1, Text.provider2, Text.single>>[((i - 1) % 3) + 1])]) :
             n \in 0..MaxProviders},
   openRouterSpecificProvider : {Undef, Str(Text.single)},
   openRouterFailoverEnabled : {Undef, Bool(FALSE)}]

\* The errors the client raises for a request or while a stream is read.
UpstreamErrors ==
  {[k |-> "error", status |-> Num(429), code |-> Undef, message |-> Str(Text.rateLimit)],
   [k |-> "error", status |-> Num(401), code |-> Undef, message |-> Str(Text.unauthorized)],
   [k |-> "error", status |-> Undef, code |-> Str(S.ECONNABORTED), message |-> Str(S.timeout)]}

\* The chunks of a stream: an error object, or a delta with a reasoning
\* text, a content text or a usage record.
Chunks ==
  {[k |-> "error", code |-> Num(429), message |-> Str(Text.rateLimit)],
   [k |-> "error", code |-> Num(504), message |-> Str(Text.gatewayTimeout)],
   [k |-> "delta", reasoning |-> Undef, content |-> Str(Text.a), usage |-> Undef],
   [k |-> "delta", reasoning |-> Str(Text.b), content |-> Str(<<>>), usage |-> Undef],
   [k |-> "delta", reasoning |-> Undef, content |-> Undef, usage |-> Obj(<<>>)]}

\* The most segments (a tag, a letter, a blank) of a text given to
\* stripThinkingTokens.
MaxSegments == 5

\* The most lines of a response body.
MaxLines == 2

(***************************************************************************)
(* The call harness: one call at a time, from idle to done and back.       *)
(***************************************************************************)
VARIABLES pc, fn, arg, ret

\* The locals of a call of createMessage or completePrompt, the requests it
\* sent upstream (providerIndex and params.provider), the errors raised to it (each
\* with the number of the request it answers) and the chunks it yielded
\* (their type and the number of the request they come from).
VARIABLES providers, providerIndex, lastError, lastUsage, requests, raised, yielded

handlerVars == <<providers, providerIndex, lastError, lastUsage, requests, raised, yielded>>

\* The reader of WandbHandler.createMessage: the part of the response body
\* not read yet, the buffer, and the texts given to JSON.parse so far.
VARIABLES body, buffer, parsed

vars == <<pc, fn, arg, ret, handlerVars, body, buffer, parsed>>

Init ==
  /\ pc = "idle" /\ fn = "none" /\ arg = Undef /\ ret = Undef
  /\ providers = Undef /\ providerIndex = 0 /\ lastError = Null /\ lastUsage = Undef
  /\ requests = <<>> /\ raised = <<>> /\ yielded = <<>>
  /\ body = <<>> /\ buffer = <<>> /\ parsed = <<>>

CallGetCompactType ==
  /\ pc = "idle"
  /\ \E p \in PropInputs :
       /\ fn' = "getCompactType"
       /\ arg' = p
       /\ ret' = getCompactType(p)
  /\ pc' = "done"
  /\ UNCHANGED <<handlerVars, body, buffer, parsed>>

CallJsonSchemaToXml ==
  /\ pc = "idle"
  /\ \E s \in RootSchemas :
       /\ fn' = "jsonSchemaToXml"
       /\ arg' = s
       /\ ret' = jsonSchemaToXml(s)
  /\ pc' = "done"
  /\ UNCHANGED <<handlerVars, body, buffer, parsed>>

CallJsonSchemaToXml4 ==
  /\ pc = "idle"
  /\ \E s \in RootSchemas :
       /\ fn' = "jsonSchemaToXml4"
       /\ arg' = s
       /\ ret' = jsonSchemaToXml4(s)
  /\ pc' = "done"
  /\ UNCHANGED <<handlerVars, body, buffer, parsed>>

CallJsonSchemaToXml3 ==
  /\ pc = "idle"
  /\ \E s \in RootSchemas :
       /\ fn' = "jsonSchemaToXml3"
       /\ arg' = s
       /\ ret' = jsonSchemaToXml3(s)
  /\ pc' = "done"
  /\ UNCHANGED <<handlerVars, body, buffer, parsed>>

CallGetProvidersToUse ==
  /\ pc = "idle"
  /\ \E o \in HandlerOptions :
       /\ fn' = "getProvidersToUse"
       /\ arg' = o
       /\ ret' = getProvidersToUse(o)
  /\ pc' = "done"
  /\ UNCHANGED <<handlerVars, body, buffer, parsed>>

CallShouldFailover ==
  /\ pc = "idle"
  /\ \E e \in Errors :
       /\ fn' = "shouldFailover"
       /\ arg' = e
       /\ ret' = shouldFailover(e)
  /\ pc' = "done"
  /\ UNCHANGED <<handlerVars, body, buffer, parsed>>

CallCreateCompletionParams ==
  /\ pc = "idle"
  /\ \E a \in CompletionArgs :
       /\ fn' = "createCompletionParams"
       /\ arg' = a
       /\ ret' = createCompletionParams(a)
  /\ pc' = "done"
  /\ UNCHANGED <<handlerVars, body, buffer, parsed>>

CallCompressSchemaWithMetrics4 ==
  /\ pc = "idle"
  /\ \E s \in MetricSchemas :
       /\ fn' = "compressSchemaWithMetrics4"
       /\ arg' = s
       /\ ret' = compressSchemaWithMetrics4(s)
  /\ pc' = "done"
  /\ UNCHANGED <<handlerVars, body, buffer, parsed>>

CallCompressToolSchemas4 ==
  /\ pc = "idle"
  /\ \E ts \in ToolLists :
       /\ fn' = "compressToolSchemas4"
       /\ arg' = ts
       /\ ret' = compressToolSchemas4(ts)
  /\ pc' = "done"
  /\ UNCHANGED <<handlerVars, body, buffer, parsed>>

CallCompressSchemaWithMetrics3 ==
  /\ pc = "idle"
  /\ \E s \in MetricSchemas :
       /\ fn' = "compressSchemaWithMetrics3"
       /\ arg' = s
       /\ ret' = compressSchemaWithMetrics3(s)
  /\ pc' = "done"
  /\ UNCHANGED <<handlerVars, body, buffer, parsed>>

CallCompressToolSchemas3 ==
  /\ pc = "idle"
  /\ \E ts \in ToolLists :
       /\ fn' = "compressToolSchemas3"
       /\ arg' = ts
       /\ ret' = compressToolSchemas3(ts)
  /\ pc' = "done"
  /\ UNCHANGED <<handlerVars, body, buffer, parsed>>

\* Dispatch that takes the failover loop whenever there are two providers.
Dispatch_IgnoresSwitch(method, options) ==
  /\ fn' = method
  /\ arg' = options
  /\ providers' = getProvidersToUse(options)
  /\ pc' = IF LengthLE(providers', 1) THEN "single" ELSE "attempt"
  /\ providerIndex' = 0
  /\ lastError' = Null
  /\ UNCHANGED <<ret, lastUsage, requests, raised, yielded, body, buffer, parsed>>

\* The first branch of createMessage and completePrompt: the legacy path
\* when failover is disabled or there is at most one provider.
Dispatch(method, options) ==
  LET failoverEnabled == IF options.openRouterFailoverEnabled.k \in {"undefined", "null"}
                           THEN TRUE
                         ELSE Truthy(options.openRouterFailoverEnabled)
  IN  /\ fn' = method
      /\ arg' = options
      /\ providers' = getProvidersToUse(options)
      /\ pc' = IF ~failoverEnabled \/ LengthLE(providers', 1) THEN "single" ELSE "attempt"
      /\ providerIndex' = 0
      /\ lastError' = Null
      /\ UNCHANGED <<ret, lastUsage, requests, raised, yielded, body, buffer, parsed>>

CallCreateMessage ==
  /\ pc = "idle"
  /\ \E o \in FailoverOptions : Dispatch("createMessage", o)

CallCompletePrompt ==
  /\ pc = "idle"
  /\ \E o \in FailoverOptions : Dispatch("completePrompt", o)

\* params.provider of the request about to be sent.
Routing ==
  IF pc = "single"
    THEN SpecificRouting(IF Len(providers.a) > 0 THEN providers.a[1] ELSE Undef)
  ELSE IF fn = "createMessage"
    THEN createCompletionParams(
           [k |-> "arguments", modelId |-> Str(Text.a), maxTokens |-> Undef,
            temperature |-> Undef, topP |-> Undef, openAiMessages |-> Arr(<<>>),
            transforms |-> Undef, reasoning |-> Undef,
            providers |-> providers, providerIndex |-> providerIndex]).provider
  ELSE SpecificRouting(providers.a[providerIndex + 1])

\* Catch that tries the same provider again.
Catch_SameProvider(error, by) ==
  LET isLastProvider == providerIndex >= Len(providers.a) - 1
      inLoop == pc \in {"attempt", "stream"}
  IN  /\ raised' = Append(raised, [error |-> error, by |-> by])
      /\ lastError' = IF inLoop THEN [error |-> error, by |-> by] ELSE lastError
      /\ providerIndex' = providerIndex
      /\ IF inLoop /\ Truthy(shouldFailover(error)) /\ ~isLastProvider
           THEN pc' = "attempt" /\ ret' = ret
         ELSE pc' = "done" /\ ret' = [k |-> "thrown", error |-> error, by |-> by]

\* Catch that lets the caller see the error of the first failed attempt.
Catch_ThrowsFirst(error, by) ==
  LET isLastProvider == providerIndex >= Len(providers.a) - 1
      inLoop == pc \in {"attempt", "stream"}
      first == IF lastError = Null THEN [error |-> error, by |-> by] ELSE lastError
  IN  /\ raised' = Append(raised, [error |-> error, by |-> by])
      /\ lastError' = IF inLoop THEN first ELSE lastError
      /\ IF inLoop /\ Truthy(shouldFailover(error)) /\ ~isLastProvider
           THEN /\ pc' = "attempt"
                /\ providerIndex' = providerIndex + 1
                /\ ret' = ret
         ELSE /\ pc' = "done"
              /\ providerIndex' = providerIndex
              /\ ret' = [k |-> "thrown", error |-> first.error, by |-> first.by]

\* An error is raised while the request numbered by is served.  In the
\* failover loop the catch block records it and goes on to the next provider
\* when shouldFailover holds and the provider is not the last; otherwise,
\* and on the legacy path, the error reaches the caller.
Catch(error, by) ==
  LET isLastProvider == providerIndex >= Len(providers.a) - 1
      inLoop == pc \in {"attempt", "stream"}
  IN  /\ raised' = Append(raised, [error |-> error, by |-> by])
      /\ lastError' = IF inLoop THEN [error |-> error, by |-> by] ELSE lastError
      /\ IF inLoop /\ Truthy(shouldFailover(error)) /\ ~isLastProvider
           THEN /\ pc' = "attempt"
                /\ providerIndex' = providerIndex + 1
                /\ ret' = ret
         ELSE /\ pc' = "done"
              /\ providerIndex' = providerIndex
              /\ ret' = [k |-> "thrown", error |-> error, by |-> by]

\* await this.client.chat.completions.create(completionParams) of
\* createMessage gives a stream.
CreateStream ==
  /\ pc \in {"attempt", "single"}
  /\ fn = "createMessage"
  /\ requests' = Append(requests, [attempt |-> providerIndex, provider |-> Routing])
  /\ pc' = IF pc = "attempt" THEN "stream" ELSE "singleStream"
  /\ lastUsage' = Undef
  /\ UNCHANGED <<fn, arg, ret, providers, providerIndex, lastError, raised, yielded, body, buffer, parsed>>

\* The request is rejected.
CreateRejects ==
  /\ pc \in {"attempt", "single"}
  /\ requests' = Append(requests, [attempt |-> providerIndex, provider |-> Routing])
  /\ \E error \in UpstreamErrors : Catch(error, Len(requests))
  /\ UNCHANGED <<fn, arg, providers, lastUsage, yielded, body, buffer, parsed>>

\* completePrompt receives a response: an error object, or a completion
\* whose content it returns.
CreateResponds ==
  /\ pc \in {"attempt", "single"}
  /\ fn = "completePrompt"
  /\ requests' = Append(requests, [attempt |-> providerIndex, provider |-> Routing])
  /\ \/ \E response \in {c \in Chunks : c.k = "error"} :
          Catch(ApiError(response), Len(requests))
     \/ /\ pc' = "done"
        /\ ret' = [k |-> "returned"]
        /\ UNCHANGED <<providerIndex, lastError, raised>>
  /\ UNCHANGED <<fn, arg, providers, lastUsage, yielded, body, buffer, parsed>>

\* StreamChunk that yields the usage of a chunk as soon as it arrives.
StreamChunk_YieldsUsage ==
  /\ pc \in {"stream", "singleStream"}
  /\ \E chunk \in Chunks :
       IF chunk.k = "error"
         THEN /\ Catch(ApiError(chunk), Len(requests) - 1)
              /\ UNCHANGED <<lastUsage, yielded>>
       ELSE LET out == (IF Truthy(chunk.content)
                          THEN <<[type |-> "text", by |-> Len(requests) - 1]>>
                        ELSE <<>>)
                       \o (IF Truthy(chunk.usage)
                             THEN <<[type |-> "usage", by |-> Len(requests) - 1]>>
                           ELSE <<>>)
            IN  /\ Len(yielded) + Len(out) <= MaxChunks
                /\ yielded' = yielded \o out
                /\ lastUsage' = lastUsage
                /\ UNCHANGED <<pc, ret, providerIndex, lastError, raised>>
  /\ UNCHANGED <<fn, arg, providers, requests, body, buffer, parsed>>

\* One chunk of the stream: an error object is raised as an error, a delta
\* yields its reasoning, then its content, and leaves its usage.
StreamChunk ==
  /\ pc \in {"stream", "singleStream"}
  /\ \E chunk \in Chunks :
       IF chunk.k = "error"
         THEN /\ Catch(ApiError(chunk), Len(requests) - 1)
              /\ UNCHANGED <<lastUsage, yielded>>
       ELSE LET out == (IF Truthy(chunk.reasoning) /\ chunk.reasoning.k = "string"
                          THEN <<[type |-> "reasoning", by |-> Len(requests) - 1]>>
                        ELSE <<>>)
                       \o (IF Truthy(chunk.content)
                             THEN <<[type |-> "text", by |-> Len(requests) - 1]>>
                           ELSE <<>>)
            IN  /\ Len(yielded) + Len(out) <= MaxChunks
                /\ yielded' = yielded \o out
                /\ lastUsage' = IF Truthy(chunk.usage) THEN chunk.usage ELSE lastUsage
                /\ UNCHANGED <<pc, ret, providerIndex, lastError, raised>>
  /\ UNCHANGED <<fn, arg, providers, requests, body, buffer, parsed>>

\* Reading the stream raises an error.
StreamThrows ==
  /\ pc \in {"stream", "singleStream"}
  /\ \E error \in UpstreamErrors : Catch(error, Len(requests) - 1)
  /\ UNCHANGED <<fn, arg, providers, lastUsage, requests, yielded, body, buffer, parsed>>

\* The stream ends: the usage seen last, if any, is yielded and the call
\* returns.
StreamEnds ==
  /\ pc \in {"stream", "singleStream"}
  /\ yielded' = IF Truthy(lastUsage)
                  THEN Append(yielded, [type |-> "usage", by |-> Len(requests) - 1])
                ELSE yielded
  /\ pc' = "done"
  /\ ret' = [k |-> "returned"]
  /\ UNCHANGED <<fn, arg, providers, providerIndex, lastError, lastUsage, requests, raised, body, buffer, parsed>>

CallStripThinkingTokens ==
  /\ pc = "idle"
  /\ \E segments \in SeqsUpTo({S.thinkOpen, S.thinkClose, <<"a">>, <<" ">>}, MaxSegments) :
       /\ fn' = "stripThinkingTokens"
       /\ arg' = Str(Flatten(segments))
       /\ ret' = stripThinkingTokens(Str(Flatten(segments)))
  /\ pc' = "done"
  /\ UNCHANGED <<handlerVars, body, buffer, parsed>>

\* WandbHandler.createMessage up to its reading loop: the response has a
\* body of up to MaxLines lines, the last one with or without a line feed.
CallWandbCreateMessage ==
  /\ pc = "idle"
  /\ \E lines \in SeqsUpTo({S.data \o <<"1">>, S.data \o <<"2">>, <<"d", "a", "t", "a", ":", "3">>,
                            S.data \o S.DONE, <<>>}, MaxLines),
        end \in {<<>>, <<"NL">>} :
       LET text == JoinChars(lines, <<"NL">>) \o end
       IN  /\ arg' = Str(text)
           /\ body' = text
  /\ fn' = "wandbCreateMessage"
  /\ buffer' = <<>>
  /\ parsed' = <<>>
  /\ pc' = "read"
  /\ UNCHANGED <<ret, handlerVars>>

\* reader.read() gives the next bytes of the body, of any length: the lines
\* they complete are processed, the rest stays in the buffer.
ReadChunk ==
  /\ pc = "read"
  /\ \E n \in 1..Len(body) :
       LET lines == SplitLines(buffer \o SubSeq(body, 1, n))
       IN  /\ buffer' = lines[Len(lines)]
           /\ parsed' = parsed \o ParsedOf(SubSeq(lines, 1, Len(lines) - 1))
           /\ body' = SubSeq(body, n + 1, Len(body))
  /\ UNCHANGED <<pc, fn, arg, ret, handlerVars>>

\* reader.read() gives done: the loop is left and the call ends.
ReadDone ==
  /\ pc = "read"
  /\ body = <<>>
  /\ pc' = "done"
  /\ ret' = [k |-> "returned"]
  /\ UNCHANGED <<fn, arg, handlerVars, body, buffer, parsed>>

Return ==
  /\ pc = "done"
  /\ pc' = "idle"
  /\ fn' = "none"
  /\ arg' = Undef
  /\ ret' = Undef
  /\ providers' = Undef
  /\ providerIndex' = 0
  /\ lastError' = Null
  /\ lastUsage' = Undef
  /\ requests' = <<>>
  /\ raised' = <<>>
  /\ yielded' = <<>>
  /\ body' = <<>>
  /\ buffer' = <<>>
  /\ parsed' = <<>>

Next ==
  \/ CallGetCompactType
  \/ CallJsonSchemaToXml
  \/ CallJsonSchemaToXml4
  \/ CallJsonSchemaToXml3
  \/ CallCompressSchemaWithMetrics4
  \/ CallCompressToolSchemas4
  \/ CallCompressSchemaWithMetrics3
  \/ CallCompressToolSchemas3
  \/ CallGetProvidersToUse
  \/ CallShouldFailover
  \/ CallCreateCompletionParams
  \/ CallCreateMessage
  \/ CallCompletePrompt
  \/ CreateStream
  \/ CreateRejects
  \/ CreateResponds
  \/ StreamChunk
  \/ StreamThrows
  \/ StreamEnds
  \/ CallStripThinkingTokens
  \/ CallWandbCreateMessage
  \/ ReadChunk
  \/ ReadDone
  \/ Return

Spec == Init /\ [][Next]_vars

(***************************************************************************)
(* The claims.                                                             *)
(***************************************************************************)
Returned(name) == pc = "done" /\ fn = name
Sentinel == S.schemaOpen \o S.schemaClose

\* The malformed root schemas the specification lists.
MalformedSchemas ==
  {Null, Undef, Obj(<<>>),
   Obj(<<Ent(K.properties, Null)>>),
   Obj(<<Ent(K.properties, Str(<<"x">>))>>),
   Obj(<<Ent(K.properties, Obj(<<Ent(<<"f">>, Arr(<<>>))>>))>>)}

\* C1: on each of the malformed inputs null, undefined, {}, {properties: null},
\* {properties: "x"} and {properties: {f: []}}, jsonSchemaToXml returns a
\* string and does not raise.
C1_TotalOnMalformed ==
  (Returned("jsonSchemaToXml") /\ arg \in MalformedSchemas) => ret.k = "string"

C1_Witness ==
  /\ Returned("jsonSchemaToXml")
  /\ arg = Obj(<<Ent(K.properties, Obj(<<Ent(<<"f">>, Arr(<<>>))>>))>>)
  /\ ret = Str(S.schemaOpen \o <<"f", "?", ":", "a", "n", "y">> \o S.schemaClose)

\* The entity reference the specification gives a character.
EntityOf(c) ==
  CASE c = "&" -> S.amp
    [] c = "<" -> S.lt
    [] c = ">" -> S.gt
    [] c = "\"" -> S.quot
    [] c = "'" -> S.apos
    [] OTHER -> <<c>>

\* A text with each of its characters replaced by its entity reference.
Escaped(s) == Flatten([i \in 1..Len(s) |-> EntityOf(s[i])])

\* A value holds no entry: it is absent, or an empty map, list or text.
HasNoEntries(v) ==
  CASE v.k = "object" -> Len(v.e) = 0
    [] v.k = "array" -> Len(v.a) = 0
    [] v.k = "string" -> Len(v.s) = 0
    [] OTHER -> TRUE

\* An allOf that merges to no properties: it is absent or no list, or the
\* merge of its members is the empty map.
MergesToNothing(allOf) ==
  \/ ~Truthy(allOf)
  \/ ~IsArray(allOf)
  \/ mergeAllOfProperties(allOf) = Obj(<<>>)

\* A root schema with array items.
HasRootItems(schema) ==
  IsStr(Get(schema, K.type), S.array) /\ Truthy(Get(schema, K.items))

\* C2: getCompactType never raises: for every property node, a null const,
\* an enum with null or non-string entries, a non-array enum, a oneOf, anyOf
\* or allOf with a null member, a non-array oneOf and a null default
\* included, it returns a string.
C2_NeverRaises == Returned("getCompactType") => ret.k = "string"

\* The marker of a key under a required list.
MarkerOf(required, key) ==
  IF required.k = "array" /\ \E i \in 1..Len(required.a) : required.a[i] = Str(key)
    THEN <<"*">> ELSE <<"?">>

\* jsonSchemaToXml was applied to a root schema without array items, whose
\* allOf merges to no properties and whose properties map is not empty.
C3_Applies ==
  /\ Returned("jsonSchemaToXml")
  /\ arg.k = "object"
  /\ ~HasRootItems(arg)
  /\ MergesToNothing(Get(arg, K.allOf))
  /\ Get(arg, K.properties).k = "object"
  /\ Len(Get(arg, K.properties).e) > 0
  /\ Get(arg, K.required).k \in {"undefined", "array"}

C4_Applies ==
  /\ Returned("jsonSchemaToXml")
  /\ \/ ~Truthy(arg)
     \/ ~TypeofObject(arg)
     \/ /\ ~HasRootItems(arg)
        /\ MergesToNothing(Get(arg, K.allOf))
        /\ HasNoEntries(Get(arg, K.properties))

\* C4: jsonSchemaToXml returns exactly "<schema></schema>" for null, {} and
\* {properties: {}}, and for every schema that is absent, no object, or has,
\* without root array items and without an allOf that merges to a property,
\* absent or empty properties.
C4_Sentinel == C4_Applies => ret = Str(Sentinel)

C4_Witness ==
  /\ C4_Applies
  /\ arg = Obj(<<Ent(K.properties, Obj(<<>>))>>)
  /\ ret = Str(Sentinel)

\* The text between "<schema>" and "</schema>".
Body(out) == SubSeq(out, Len(S.schemaOpen) + 1, Len(out) - Len(S.schemaClose))

\* One of the five entity references starts at position i.
EntityAt(s, i) ==
  \E e \in {S.amp, S.lt, S.gt, S.quot, S.apos} :
    i + Len(e) - 1 <= Len(s) /\ SubSeq(s, i, i + Len(e) - 1) = e

\* No "<", ">" or "'" occurs, every "&" starts an entity reference, and every
\* opening double quote follows the "=" of a default.
NoRawSpecials(s) ==
  \A i \in 1..Len(s) :
    /\ s[i] \notin {"<", ">", "'"}
    /\ s[i] = "&" => EntityAt(s, i)
    /\ (s[i] = "\"" /\ Cardinality({j \in 1..i : s[j] = "\""}) % 2 = 1)
         => (i > 1 /\ s[i - 1] = "=")

\* C5: in the output of jsonSchemaToXml no raw "<", ">", "&", double or
\* single quote comes from the input (property keys, enum values, const
\* values, string defaults, patterns, type names): between the two tags each
\* occurs only as an entity reference or as the punctuation of a default.
C5_NoRawSpecials ==
  (Returned("jsonSchemaToXml") /\ ret.k = "string") =>
    /\ Len(ret.s) >= Len(Sentinel)
    /\ SubSeq(ret.s, 1, Len(S.schemaOpen)) = S.schemaOpen
    /\ NoRawSpecials(Body(ret.s))

\* A percentage of [0, 100] that is 0 where nothing was saved.
InRange(reduction, originalTokens, compressedTokens) ==
  /\ reduction \in 0..100
  /\ compressedTokens >= originalTokens => reduction = 0

\* C6: the reduction compressSchemaWithMetrics returns and the
\* totalReduction compressToolSchemas returns are integers of [0, 100], and
\* 0 whenever compressedTokens >= originalTokens.
C6_ReductionInRange ==
  /\ ((Returned("compressSchemaWithMetrics4") \/ Returned("compressSchemaWithMetrics3"))
        /\ ret.k = "result")
       => InRange(ret.reduction, ret.originalTokens, ret.compressedTokens)
  /\ ((Returned("compressToolSchemas4") \/ Returned("compressToolSchemas3"))
        /\ ret.k = "batch")
       => InRange(ret.totalReduction, ret.originalTokens, ret.compressedTokens)

RECURSIVE SumTo(_, _)
\* f[1] + ... + f[n]
SumTo(f, n) == IF n = 0 THEN 0 ELSE f[n] + SumTo(f, n - 1)

\* r is round(max(0, (O - C) / O * 100)), a tie rounded either way.
IsRoundedPercent(r, O, C) ==
  IF O > 0 /\ C < O
    THEN 2 * O * r - O <= 200 * (O - C) /\ 200 * (O - C) <= 2 * O * r + O
  ELSE r = 0

\* The metrics of each tool of a batch on its own.
PerTool4(tools) ==
  [i \in 1..Len(tools) |-> compressSchemaWithMetrics4(Get(tools[i], K.inputSchema))]

\* C7: compressToolSchemas returns compressedTools of the length and order
\* of the tools, each with the name of its tool, originalTokens and
\* compressedTokens that are the sums of the per-tool values, and a
\* totalReduction that is round(max(0, (O - C) / O * 100)) of those sums
\* (where compressSchemaWithMetrics raises on a tool, so does the call).
C7_BatchAggregates ==
  Returned("compressToolSchemas4") =>
    LET tools == arg.a
        per == PerTool4(tools)
    IN  IF \E i \in 1..Len(tools) : IsThrow(per[i]) THEN IsThrow(ret)
        ELSE
        /\ ret.k = "batch"
        /\ Len(ret.compressedTools) = Len(tools)
        /\ \A i \in 1..Len(tools) :
             /\ ret.compressedTools[i].name = Get(tools[i], K.name)
             /\ ret.compressedTools[i].compressedSchema = per[i].compressed
        /\ ret.originalTokens = SumTo([i \in 1..Len(tools) |-> per[i].originalTokens], Len(tools))
        /\ ret.compressedTokens = SumTo([i \in 1..Len(tools) |-> per[i].compressedTokens], Len(tools))
        /\ IsRoundedPercent(ret.totalReduction, ret.originalTokens, ret.compressedTokens)

\* A batch of two tools whose total reduction is not the mean of the two.
C7_Witness ==
  /\ Returned("compressToolSchemas4")
  /\ ret.k = "batch"
  /\ Len(arg.a) = 2
  /\ Get(arg.a[1], K.name) # Get(arg.a[2], K.name)
  /\ LET per == PerTool4(arg.a)
     IN  /\ per[1].reduction > per[2].reduction
         /\ per[2].reduction > 0
         /\ 2 * ret.totalReduction > per[1].reduction + per[2].reduction + 1

\* C8: compressToolSchemas accepts tools whose inputSchema is absent: it does
\* not raise, and the compressedSchema of each such tool is
\* "<schema></schema>".
C8_AbsentSchemaAccepted ==
  ((Returned("compressToolSchemas4") \/ Returned("compressToolSchemas3"))
     /\ \A i \in 1..Len(arg.a) : Get(arg.a[i], K.inputSchema).k = "undefined")
    => /\ ret.k = "batch"
       /\ \A i \in 1..Len(arg.a) : ret.compressedTools[i].compressedSchema = Sentinel

\* getCompactType was applied to a node with an enum list, a type other
\* than array and no const.
C10_Applies ==
  /\ Returned("getCompactType")
  /\ arg.k = "object"
  /\ Get(arg, K.enum).k = "array"
  /\ ~IsStr(Get(arg, K.type), S.array)
  /\ Get(arg, K.const).k = "undefined"

\* C10: for a node with an enum, a type other than array and no const,
\* getCompactType gives "enum(v1|v2|v3)", every value in order, coerced to a
\* string and escaped, when the enum has at most 3 values, and the bare
\* "enum" when it has more.
C10_EnumThreshold ==
  C10_Applies =>
    LET vs == Get(arg, K.enum).a
    IN  ret = Str(IF Len(vs) <= 3
                    THEN S.enumOpen
                           \o JoinChars([i \in 1..Len(vs) |-> Escaped(StringOf(vs[i]).s)], <<"|">>)
                           \o <<")">>
                  ELSE S.enum)

\* The literal lit occurs in s at position i.
StartsAt(s, i, lit) ==
  i + Len(lit) - 1 <= Len(s) /\ SubSeq(s, i, i + Len(lit) - 1) = lit

\* The positions after a character c of s at or after position i.
After(s, i, c) == {j + 1 : j \in {j \in i..Len(s) : s[j] = c}}

\* The type tokens of the grammar that stand alone.
Atoms ==
  {S.any, S.string, S.number, S.boolean, S.null, S.date, S.datetime, S.email, S.url,
   S.uuid, S.ipv4, S.ipv6, S.object, S.enum, S.merged}

RECURSIVE TypeNames(_)
\* The texts of the type fields of a schema and of all that it holds.
TypeNames(v) ==
  CASE v.k = "object" ->
         (IF Truthy(Get(v, K.type)) THEN {StringOf(Get(v, K.type)).s} ELSE {})
           \cup UNION {TypeNames(v.e[i].val) : i \in 1..Len(v.e)}
    [] v.k = "array" -> UNION {TypeNames(v.a[i]) : i \in 1..Len(v.a)}
    [] OTHER -> {}

\* The grammar of the specification as it is printed: its nonterminals key,
\* escaped-key, value and constraint, which it leaves open, are any text.
Printed == [ext |-> FALSE, names |-> {}]

\* The grammar with four more productions: "{" min ".." max "}" after an
\* array or tuple type, "tuple[]" and "object{}" without a member, the empty
\* type, the given type names, and at the root "merged{" param-list "}".
Extended(names) == [ext |-> TRUE, names |-> names]

RECURSIVE TypeEnds(_, _, _)
RECURSIVE TupleEnds(_, _, _)
RECURSIVE PairEnds(_, _, _)
RECURSIVE SuffixEnds(_, _, _, _)
RECURSIVE ParamEnds(_, _, _)

\* The ends j of type {"," type} from position i: s[i..j-1] is derived.
TupleEnds(G, s, i) ==
  LET E == TypeEnds(G, s, i)
  IN  E \cup UNION {TupleEnds(G, s, j + 1) : j \in {j \in E : j <= Len(s) /\ s[j] = ","}}

\* The ends of key ":" type {"," key ":" type} from position i.
PairEnds(G, s, i) ==
  LET E == UNION {TypeEnds(G, s, k) : k \in After(s, i, ":")}
  IN  E \cup UNION {PairEnds(G, s, j + 1) : j \in {j \in E : j <= Len(s) /\ s[j] = ","}}

\* The ends of a bracketed list that starts at position i.
Bracketed(G, s, i, ends, close) ==
  {j + 1 : j \in {j \in ends : j <= Len(s) /\ s[j] = close}}
    \cup (IF G.ext /\ i <= Len(s) /\ s[i] = close THEN {i + 1} ELSE {})

\* The ends E of an array or tuple type, and with the extension those after
\* a "{" min ".." max "}" that follows one.
Ranged(G, s, E) ==
  E \cup (IF ~G.ext THEN {}
          ELSE UNION {{j + 1 : j \in {j \in (e + 3)..Len(s) :
                                        /\ s[j] = "}"
                                        /\ \E d \in (e + 1)..(j - 2) : StartsAt(s, d, S.dotdot)}} :
                        e \in {e \in E : e <= Len(s) /\ s[e] = "{"}})

\* The ends of the productions that do not start with a type.
BaseEnds(G, s, i) ==
  {i + Len(a) : a \in {a \in Atoms \cup G.names : StartsAt(s, i, a)}}
    \cup (IF G.ext THEN {i} ELSE {})
    \cup (IF StartsAt(s, i, S.arrayOpen)
            THEN Ranged(G, s, {j + 1 : j \in {j \in TypeEnds(G, s, i + Len(S.arrayOpen)) :
                                               j <= Len(s) /\ s[j] = "]"}})
          ELSE {})
    \cup (IF StartsAt(s, i, S.tupleOpen)
            THEN Ranged(G, s, Bracketed(G, s, i + Len(S.tupleOpen),
                                        TupleEnds(G, s, i + Len(S.tupleOpen)), "]"))
          ELSE {})
    \cup (IF StartsAt(s, i, S.objectOpen)
            THEN Bracketed(G, s, i + Len(S.objectOpen),
                           PairEnds(G, s, i + Len(S.objectOpen)), "}")
          ELSE {})
    \cup (IF StartsAt(s, i, S.mergedOpen)
            THEN Bracketed(G, s, i + Len(S.mergedOpen),
                           PairEnds(G, s, i + Len(S.mergedOpen)), "}")
          ELSE {})
    \cup (IF StartsAt(s, i, S.enumOpen) THEN After(s, i + Len(S.enumOpen), ")") ELSE {})
    \cup (IF StartsAt(s, i, S.constOpen) THEN After(s, i + Len(S.constOpen), ")") ELSE {})

\* The ends E of a type and those of the productions type "|" type,
\* type "(" constraints ")" and type "=" value that continue one of them;
\* seen are the ends already continued.
SuffixEnds(G, s, E, seen) ==
  IF E \subseteq seen THEN seen
  ELSE LET j == CHOOSE j \in E \ seen : TRUE
           more == IF j > Len(s) THEN {}
                   ELSE IF s[j] = "|" THEN TypeEnds(G, s, j + 1)
                   ELSE IF s[j] = "(" THEN After(s, j + 1, ")")
                   ELSE IF s[j] = "=" THEN (j + 1)..(Len(s) + 1)
                   ELSE {}
       IN  SuffixEnds(G, s, E \cup more, seen \cup {j})

\* The ends j of a type from position i.
TypeEnds(G, s, i) == SuffixEnds(G, s, BaseEnds(G, s, i), {})

\* The ends of param {", " param} from position i.
ParamEnds(G, s, i) ==
  LET E == UNION {TypeEnds(G, s, k + 2) :
                    k \in {k \in i..(Len(s) - 1) : s[k] \in {"*", "?"} /\ s[k + 1] = ":"}}
  IN  E \cup UNION {ParamEnds(G, s, j + 2) : j \in {j \in E : StartsAt(s, j, S.commaSpace)}}

\* The text between the tags is empty, a param-list, the type of a root
\* array or tuple, or with the extension "merged{" param-list "}".
DerivableBody(G, b) ==
  \/ b = <<>>
  \/ Len(b) + 1 \in ParamEnds(G, b, 1)
  \/ /\ StartsAt(b, 1, S.arrayOpen) \/ StartsAt(b, 1, S.tupleOpen)
     /\ Len(b) + 1 \in TypeEnds(G, b, 1)
  \/ /\ G.ext
     /\ StartsAt(b, 1, S.mergedOpen)
     /\ b[Len(b)] = "}"
     /\ Len(b) \in ParamEnds(G, b, Len(S.mergedOpen) + 1)

\* out is a schema-string of the grammar G.
Derivable(G, out) ==
  /\ Len(out) >= Len(Sentinel)
  /\ StartsAt(out, 1, S.schemaOpen)
  /\ StartsAt(out, Len(out) - Len(S.schemaClose) + 1, S.schemaClose)
  /\ DerivableBody(G, Body(out))

C11_Applies ==
  /\ Returned("jsonSchemaToXml")
  /\ arg.k = "object"
  /\ HasRootItems(arg)

\* C11: for a root schema of type "array" with items, properties present or
\* not, jsonSchemaToXml returns "<schema>array[" + getCompactType(items) +
\* "]</schema>" when items is one schema and "<schema>tuple[t1,...,tn]</schema>",
\* ti the getCompactType of the i-th item, when items is a list: no key, no
\* marker, no range suffix (where getCompactType raises on an item, so does
\* the call).
C11_RootArrayBypass ==
  C11_Applies =>
    LET items == Get(arg, K.items)
    IN  IF IsArray(items) THEN
          IF \E i \in 1..Len(items.a) : IsThrow(getCompactType(items.a[i])) THEN IsThrow(ret)
          ELSE ret = Str(S.schemaOpen \o S.tupleOpen
                           \o JoinChars([i \in 1..Len(items.a) |->
                                StringOf(getCompactType(items.a[i])).s], <<",">>)
                           \o <<"]">> \o S.schemaClose)
        ELSE IF IsThrow(getCompactType(items)) THEN IsThrow(ret)
        ELSE ret = Str(S.schemaOpen \o S.arrayOpen \o StringOf(getCompactType(items)).s
                         \o <<"]">> \o S.schemaClose)

\* A root tuple of two items beside a properties map and a required list.
C11_Witness ==
  /\ C11_Applies
  /\ Get(arg, K.properties).k = "object"
  /\ Get(arg, K.required).k = "array"
  /\ IsArray(Get(arg, K.items))
  /\ Len(Get(arg, K.items).a) = 2
  /\ ret = Str(S.schemaOpen \o S.tupleOpen \o S.string \o <<",">> \o S.numberOpen
                 \o <<"GE", "1", ")", "]">> \o S.schemaClose)

\* getCompactType was applied to a node of type "array" without minItems and
\* maxItems.
C12_Applies ==
  /\ Returned("getCompactType")
  /\ arg.k = "object"
  /\ IsStr(Get(arg, K.type), S.array)
  /\ IsUndefined(Get(arg, K.minItems))
  /\ IsUndefined(Get(arg, K.maxItems))

\* C12: for a node of type "array" without minItems and maxItems,
\* getCompactType gives "array[any]" when items is absent,
\* "tuple[t1,...,tn]" when items is a list, and "array[" +
\* getCompactType(items) + "]" otherwise, at every depth of nesting (where
\* getCompactType raises on the items, so does the call).
C12_ArrayComposition ==
  C12_Applies =>
    LET items == Get(arg, K.items)
    IN  IF IsUndefined(items) THEN ret = Str(S.arrayAny)
        ELSE IF IsArray(items) THEN
          IF \E i \in 1..Len(items.a) : IsThrow(getCompactType(items.a[i])) THEN IsThrow(ret)
          ELSE ret = Str(S.tupleOpen
                           \o JoinChars([i \in 1..Len(items.a) |->
                                StringOf(getCompactType(items.a[i])).s], <<",">>)
                           \o <<"]">>)
        ELSE IF IsThrow(getCompactType(items)) THEN IsThrow(ret)
        ELSE ret = Str(S.arrayOpen \o StringOf(getCompactType(items)).s \o <<"]">>)

\* An array of arrays of arrays of numbers.
C12_Witness ==
  /\ C12_Applies
  /\ Get(arg, K.items) = ArrayOfArrays
  /\ ret = Str(S.arrayOpen \o S.arrayOpen \o S.arrayOpen \o S.number \o <<"]", "]", "]">>)

\* jsonSchemaToXml, in one of its three variants, was applied to a root
\* schema whose one property is of type "object" and nests properties.
C13_Applies ==
  /\ pc = "done"
  /\ fn \in {"jsonSchemaToXml", "jsonSchemaToXml4", "jsonSchemaToXml3"}
  /\ arg \in NestedObjectSchemas
  /\ Len(Get(Get(arg, K.properties).e[1].val, K.properties).e) > 0

\* C13: a property of type "object" that has nested properties is encoded by
\* jsonSchemaToXml as the bare type "object":
\* "<schema>requirements*:object</schema>" for a required property
\* requirements that nests description and scale.
C13_BareObject ==
  C13_Applies =>
    ret = Str(S.schemaOpen \o Text.requirements
                \o MarkerOf(Get(arg, K.required), Text.requirements)
                \o <<":">> \o S.object \o S.schemaClose)

RECURSIVE WithoutEmptyAndDefault(_)
\* A list of names without its empty entries and without the default name.
WithoutEmptyAndDefault(names) ==
  IF Len(names) = 0 THEN <<>>
  ELSE (IF Head(names) \in {Str(<<>>), Str(OPENROUTER_DEFAULT_PROVIDER_NAME)}
          THEN <<>> ELSE <<Head(names)>>)
         \o WithoutEmptyAndDefault(Tail(names))

\* C14: getProvidersToUse returns the entries of openRouterProviders in
\* their order, without the empty entries and the default provider name,
\* whenever openRouterProviders is not empty, whatever
\* openRouterSpecificProvider is; otherwise [openRouterSpecificProvider] when
\* that is set and is not the default provider name; otherwise the empty list.
C14_ProvidersToUse ==
  Returned("getProvidersToUse") =>
    LET configured == arg.openRouterProviders
        specific == arg.openRouterSpecificProvider
    IN  IF IsArray(configured) /\ Len(configured.a) > 0
          THEN ret = Arr(WithoutEmptyAndDefault(configured.a))
        ELSE IF specific.k = "string" /\ specific.s # <<>>
                  /\ specific.s # OPENROUTER_DEFAULT_PROVIDER_NAME
          THEN ret = Arr(<<specific>>)
        ELSE ret = Arr(<<>>)

\* Both options are set: the list, less its default entry, wins.
C14_Witness ==
  /\ Returned("getProvidersToUse")
  /\ arg.openRouterProviders =
       Arr(<<Str(Text.provider1), Str(OPENROUTER_DEFAULT_PROVIDER_NAME), Str(Text.provider2)>>)
  /\ arg.openRouterSpecificProvider = Str(Text.single)
  /\ ret = Arr(<<Str(Text.provider1), Str(Text.provider2)>>)

\* The text occurs in the message when letters are compared without case.
OccursLowerCased(message, text) ==
  /\ message.k = "string"
  /\ LET upperCase == UpperCaseLetters
         lowerCase == LowerCaseLetters
     IN  \E i \in 1..Len(message.s) :
           /\ i + Len(text) - 1 <= Len(message.s)
           /\ \A j \in 1..Len(text) :
                \/ message.s[i + j - 1] = text[j]
                \/ \E n \in 1..26 : /\ message.s[i + j - 1] = upperCase[n]
                                    /\ text[j] = lowerCase[n]

\* The text occurs in the message as it is written.
Occurs(message, text) ==
  message.k = "string" /\ \E i \in 1..Len(message.s) : StartsAt(message.s, i, text)

\* The errors the claim lists as triggering a failover.
C15_Failover(error) ==
  /\ error.k = "error"
  /\ \/ error.status \in {Num(429), Num(502), Num(503)}
     \/ /\ error.status = Num(400)
        /\ \E n \in 1..Len(contextErrorPatterns) :
             OccursLowerCased(error.message, contextErrorPatterns[n])
     \/ /\ error.status \notin {Num(429), Num(502), Num(503), Num(400)}
        /\ (error.code = Str(S.ECONNABORTED) \/ Occurs(error.message, S.timeout))

\* C15: shouldFailover(error) is true exactly for status 429, 502 or 503, for
\* status 400 with a message that, lower-cased, contains one of the six
\* context patterns, and, for the other statuses, for code "ECONNABORTED" or
\* a message containing "timeout"; it is false for null, undefined and every
\* other error.
C15_ShouldFailover ==
  Returned("shouldFailover") => ret = Bool(C15_Failover(arg))

\* A status 400 whose message holds a pattern in capitals.
C15_Witness ==
  /\ Returned("shouldFailover")
  /\ arg.k = "error"
  /\ arg.status = Num(400)
  /\ arg.message = Str(Text.upperContext)
  /\ ret = Bool(TRUE)

\* The routing of one provider, without fallbacks.
StrictRouting(p) ==
  [order |-> Arr(<<p>>), only |-> Arr(<<p>>), allow_fallbacks |-> Bool(FALSE)]

\* The routing of a list of providers, with fallbacks.
FallbackRouting(ps) ==
  [order |-> Arr(ps), only |-> Arr(ps), allow_fallbacks |-> Bool(TRUE)]

\* C16: createCompletionParams sets no provider routing for an empty list of
\* providers; for a list of one element, or when providerIndex >= length - 1,
\* order and only are [p], p = providers[min(providerIndex, length - 1)], and
\* allow_fallbacks is false; otherwise order and only are the providers from
\* providerIndex on, in order, and allow_fallbacks is true.
C16_ProviderRouting ==
  Returned("createCompletionParams") =>
    LET ps == arg.providers.a
        i == arg.providerIndex
        n == Len(ps)
    IN  IF n = 0 THEN ret.provider = Undef
        ELSE IF n = 1 \/ i >= n - 1
          THEN \E j \in 0..(n - 1) :
                 /\ j <= i /\ (j = i \/ j = n - 1)
                 /\ ret.provider = StrictRouting(ps[j + 1])
        ELSE ret.provider = FallbackRouting([m \in 1..(n - i) |-> ps[i + m]])

\* The second attempt over three providers.
C16_Witness ==
  /\ Returned("createCompletionParams")
  /\ arg.providers = Arr(<<Str(Text.provider1), Str(Text.provider2), Str(Text.single)>>)
  /\ arg.providerIndex = 1
  /\ ret.provider = FallbackRouting(<<Str(Text.provider2), Str(Text.single)>>)

\* The rule of the dispatch order that a node matches first: 1 type "array",
\* 2 const, 3 enum, 4 allOf, 5 type "object", 6 oneOf/anyOf, 7 the switch on
\* the primitive type.
FirstRule(node) ==
  IF IsStr(Get(node, K.type), S.array) THEN 1
  ELSE IF Get(node, K.const).k # "undefined" THEN 2
  ELSE IF Get(node, K.enum).k = "array" THEN 3
  ELSE IF Get(node, K.allOf).k = "array" THEN 4
  ELSE IF IsStr(Get(node, K.type), S.object) THEN 5
  ELSE IF Get(node, K.oneOf).k = "array" \/ Get(node, K.anyOf).k = "array" THEN 6
  ELSE 7

\* The fields a rule dispatches on.
RuleFields(rule) ==
  CASE rule \in {1, 5, 7} -> {K.type}
    [] rule = 2 -> {K.const}
    [] rule = 3 -> {K.enum}
    [] rule = 4 -> {K.allOf}
    [] rule = 6 -> {K.oneOf, K.anyOf}

\* The node without the fields the other rules dispatch on.
OnlyRule(node, rule) ==
  Obj(SelectSeq(node.e, LAMBDA e :
        e.key \in RuleFields(rule)
          \/ e.key \notin {K.type, K.const, K.enum, K.allOf, K.oneOf, K.anyOf}))

\* The number of rules a node matches.
RulesMatched(node) ==
  Cardinality({r \in 1..6 :
    CASE r = 1 -> IsStr(Get(node, K.type), S.array)
      [] r = 2 -> Get(node, K.const).k # "undefined"
      [] r = 3 -> Get(node, K.enum).k = "array"
      [] r = 4 -> Get(node, K.allOf).k = "array"
      [] r = 5 -> IsStr(Get(node, K.type), S.object)
      [] r = 6 -> Get(node, K.oneOf).k = "array" \/ Get(node, K.anyOf).k = "array"})

\* The text a rule's encoding starts with.
RulePrefixes(rule) ==
  CASE rule = 1 -> {S.arrayOpen, S.tupleOpen}
    [] rule = 2 -> {S.constOpen}
    [] rule = 3 -> {S.enum}
    [] rule = 4 -> {S.merged}
    [] rule = 5 -> {S.object}
    [] OTHER -> {<<>>}

\* getCompactType was applied to a node whose enum, allOf, oneOf and anyOf
\* are lists where they are set.
C17_Applies ==
  /\ Returned("getCompactType")
  /\ arg.k = "object"
  /\ \A key \in {K.enum, K.allOf, K.oneOf, K.anyOf} :
       Get(arg, key).k \in {"undefined", "array"}

\* C17: getCompactType dispatches on the first match in the order type
\* "array", const, enum, allOf, type "object", oneOf/anyOf, primitive type:
\* for a node with several of these fields set the result is the encoding of
\* the first matching rule alone, that is what the node gives without the
\* fields of the other rules, and it has the form of that rule.
C17_FirstMatchWins ==
  C17_Applies =>
    LET rule == FirstRule(arg)
    IN  /\ ret = getCompactType(OnlyRule(arg, rule))
        /\ ret.k = "string" =>
             \E prefix \in RulePrefixes(rule) : StartsAt(ret.s, 1, prefix)

\* A node with a const, an enum, an allOf and a oneOf: the const wins.
C17_Witness ==
  /\ C17_Applies
  /\ RulesMatched(arg) >= 4
  /\ FirstRule(arg) = 2
  /\ ret = Str(S.constOpen \o Text.a \o <<")">>)

\* The members of an allOf that have a properties map.
WithProperties(members) ==
  {i \in 1..Len(members) :
     members[i].k = "object" /\ Get(members[i], K.properties).k = "object"}

\* The keys of the properties maps of the members.
MemberKeys(members) ==
  UNION {{Get(members[i], K.properties).e[j].key :
            j \in 1..Len(Get(members[i], K.properties).e)} : i \in WithProperties(members)}

\* The value of a key in the last member whose properties hold it.
LastValue(members, key) ==
  LET holders == {i \in WithProperties(members) :
                    Get(Get(members[i], K.properties), key).k # "undefined"}
      last == CHOOSE i \in holders : \A j \in holders : j <= i
  IN  Get(Get(members[last], K.properties), key)

\* Every member is an object whose properties are absent or a map.
WellFormedMembers(members) ==
  \A i \in 1..Len(members) :
    /\ members[i].k = "object"
    /\ Get(members[i], K.properties).k \in {"undefined", "object"}

\* The schema without its allOf.
WithoutAllOf(schema) == Obj(SelectSeq(schema.e, LAMBDA e : e.key # K.allOf))

\* jsonSchemaToXml was applied to a root schema with an allOf list, without
\* root array items and with a required list or none.
C18_Applies ==
  /\ Returned("jsonSchemaToXml")
  /\ arg.k = "object"
  /\ ~HasRootItems(arg)
  /\ Get(arg, K.allOf).k = "array"
  /\ Get(arg, K.required).k \in {"undefined", "array"}

\* C18: for a root schema whose allOf merges to a non-empty set of
\* properties, jsonSchemaToXml returns "<schema>merged{" + entries +
\* "}</schema>": one entry per distinct key over all members, the type
\* that of the last member that holds the key, the marker "*" or "?" from
\* the required list of the root; when the merge is empty it returns what
\* the root gives without the allOf (where the merge or getCompactType
\* raises, so does the call).
C18_RootMerged ==
  C18_Applies =>
    LET members == Get(arg, K.allOf).a
        merged == mergeAllOfProperties(Get(arg, K.allOf))
        required == Get(arg, K.required)
    IN  IF IsThrow(merged) THEN IsThrow(ret)
        ELSE IF Len(merged.e) = 0 THEN ret = jsonSchemaToXml(WithoutAllOf(arg))
        ELSE
        /\ WellFormedMembers(members) =>
             /\ Len(merged.e) = Cardinality(MemberKeys(members))
             /\ \A i \in 1..Len(merged.e) :
                  /\ merged.e[i].key \in MemberKeys(members)
                  /\ merged.e[i].val = LastValue(members, merged.e[i].key)
        /\ LET es == ObjectEntries(merged)
           IN  IF \E i \in 1..Len(es) : IsThrow(getCompactType(es[i].val)) THEN IsThrow(ret)
               ELSE ret = Str(S.schemaOpen \o S.mergedOpen
                                \o JoinChars([i \in 1..Len(es) |->
                                     Escaped(es[i].key) \o MarkerOf(required, es[i].key)
                                       \o <<":">> \o StringOf(getCompactType(es[i].val)).s],
                                     <<",", " ">>)
                                \o <<"}">> \o S.schemaClose)

\* Two members hold the key a, the second also a required list; the root has
\* no required list: the type is that of the second member, the marker "?".
C18_Witness ==
  /\ C18_Applies
  /\ Len(Get(arg, K.allOf).a) = 2
  /\ WellFormedMembers(Get(arg, K.allOf).a)
  /\ Get(Get(arg, K.allOf).a[2], K.required).k = "array"
  /\ Get(arg, K.required).k = "undefined"
  /\ Get(arg, K.properties).k = "object"
  /\ MemberKeys(Get(arg, K.allOf).a) = {Text.a}
  /\ Cardinality(WithProperties(Get(arg, K.allOf).a)) = 2
  /\ ret = Str(S.schemaOpen \o S.mergedOpen \o Text.a \o <<"?", ":">> \o S.boolean
                 \o <<"}">> \o S.schemaClose)

\* getCompactType was applied to a node of type "object" without const, enum
\* and allOf, whose properties are absent or a map.
C19_Applies ==
  /\ Returned("getCompactType")
  /\ arg.k = "object"
  /\ FirstRule(arg) = 5
  /\ Get(arg, K.properties).k \in {"undefined", "null", "object"}

C20_Applies ==
  /\ Returned("getCompactType")
  /\ arg.k = "object"
  /\ IsStr(Get(arg, K.type), S.array)
  /\ \A key \in {K.minItems, K.maxItems} :
       \/ Get(arg, key).k = "undefined"
       \/ Get(arg, key).k = "number" /\ Get(arg, key).n >= 0

\* The node without minItems and maxItems.
WithoutRange(node) ==
  Obj(SelectSeq(node.e, LAMBDA e : e.key \notin {K.minItems, K.maxItems}))

\* C20: for a node of type "array", getCompactType appends "{min..max}" to
\* the array type if and only if minItems or maxItems is set; min is the
\* value of minItems, or 0 when it is not set, max the value of maxItems, or
\* the sign of infinity when it is not set, for every value that is not
\* negative, 0 included.
C20_RangeSuffix ==
  C20_Applies =>
    LET minItems == Get(arg, K.minItems)
        maxItems == Get(arg, K.maxItems)
        base == getCompactType(WithoutRange(arg))
        min == IF minItems.k = "number" THEN NumToChars(minItems.n) ELSE <<"0">>
        max == IF maxItems.k = "number" THEN NumToChars(maxItems.n) ELSE <<"INF">>
    IN  IF IsThrow(base) THEN IsThrow(ret)
        ELSE IF minItems.k = "undefined" /\ maxItems.k = "undefined" THEN ret = base
        ELSE ret = Str(base.s \o <<"{">> \o min \o <<".", ".">> \o max \o <<"}">>)

\* getCompactType was applied to a node that reaches the oneOf/anyOf rule
\* and whose alternatives are schema objects with an enum list, if any,
\* and a properties map, if any.
C21_Applies ==
  /\ C17_Applies
  /\ FirstRule(arg) = 6
  /\ LET unionArray == IF Get(arg, K.oneOf).k = "array" THEN Get(arg, K.oneOf)
                       ELSE Get(arg, K.anyOf)
     IN  \A i \in 1..Len(unionArray.a) :
           /\ unionArray.a[i].k = "object"
           /\ Get(unionArray.a[i], K.enum).k \in {"undefined", "array"}
           /\ Get(unionArray.a[i], K.properties).k \in {"undefined", "object"}

\* The encoding of one alternative of a union.
C21_Alternative(p) ==
  LET enum == Get(p, K.enum)
      type == Get(p, K.type)
      properties == Get(p, K.properties)
      count == IF properties.k = "object" THEN Len(properties.e) ELSE 0
      bounds == (IF Get(p, K.minimum).k = "undefined" THEN <<>>
                 ELSE <<<<"GE">> \o StringOf(Get(p, K.minimum)).s>>)
                \o (IF Get(p, K.maximum).k = "undefined" THEN <<>>
                    ELSE <<<<"LE">> \o StringOf(Get(p, K.maximum)).s>>)
  IN  IF enum.k = "array" THEN
        IF Len(enum.a) <= 3
          THEN Str(S.enumOpen
                     \o JoinChars([i \in 1..Len(enum.a) |-> Escaped(StringOf(enum.a[i]).s)], <<"|">>)
                     \o <<")">>)
        ELSE Str(S.enumOpen \o NatToChars(Len(enum.a)) \o <<")">>)
      ELSE IF IsStr(type, S.number) \/ IsStr(type, S.integer) THEN
        Str(IF bounds = <<>> THEN S.number
            ELSE S.numberOpen \o JoinChars(bounds, <<",">>) \o <<")">>)
      ELSE IF IsStr(type, S.object) THEN
        Str(IF count <= 2 THEN S.objectParen \o NatToChars(count) \o <<")">> ELSE S.object)
      ELSE getCompactType(p)

\* C21: for a node that reaches the oneOf/anyOf rule, getCompactType gives
\* the encodings of the alternatives, in order, joined by "|": "enum(v1|..)"
\* for an alternative with an enum of at most 3 values and "enum(<count>)"
\* for a longer one, "number(>=min,<=max)" from the minimum and maximum of an
\* alternative of type number or integer, "object(<propCount>)" for an
\* alternative of type object with at most 2 properties and the bare
\* "object" with more, and what getCompactType gives every other alternative.
C21_UnionAlternatives ==
  C21_Applies =>
    LET unionArray == IF Get(arg, K.oneOf).k = "array" THEN Get(arg, K.oneOf)
                      ELSE Get(arg, K.anyOf)
        parts == [i \in 1..Len(unionArray.a) |-> C21_Alternative(unionArray.a[i])]
    IN  ret = IF \E i \in 1..Len(parts) : IsThrow(parts[i]) THEN Throw
              ELSE Str(JoinChars([i \in 1..Len(parts) |-> StringOf(parts[i]).s], <<"|">>))

\* C30: getCompactType never returns the empty string: for every property
\* node, one with an empty oneOf or anyOf and one whose type is the empty
\* string included, the result is a type token of at least one character.
C30_NeverEmpty == Returned("getCompactType") => ret # Str(<<>>)

\* A call of createMessage or completePrompt.
HandlerCall == fn \in {"createMessage", "completePrompt"}

\* Failover is enabled and there are at least two providers.
FailoverCall ==
  /\ HandlerCall
  /\ arg.openRouterFailoverEnabled # Bool(FALSE)
  /\ Len(providers.a) >= 2

\* Failover is disabled or there is at most one provider.
LegacyCall ==
  /\ HandlerCall
  /\ arg.openRouterFailoverEnabled = Bool(FALSE) \/ Len(providers.a) <= 1

\* shouldFailover holds of the error.
Eligible(error) == shouldFailover(error) = Bool(TRUE)

\* The call has returned or thrown.
Finished == ret.k \in {"returned", "thrown"}

\* The routing to one provider without fallbacks.
OnlyTo(provider) ==
  [order |-> Arr(<<provider>>), only |-> Arr(<<provider>>), allow_fallbacks |-> Bool(FALSE)]

\* What holds of the requests of a call with failover in every state.
C22_InOrder ==
  FailoverCall =>
    /\ Len(requests) <= Len(providers.a)
    /\ \A i \in 1..Len(requests) :
         /\ requests[i].attempt = i - 1
         /\ requests[i].provider.order.a[1] = providers.a[i]
         /\ i > 1 => /\ Len(raised) >= i - 1
                     /\ raised[i - 1].by = i - 2
                     /\ Eligible(raised[i - 1].error)
    /\ ret.k = "returned" => Len(raised) = Len(requests) - 1
    /\ Finished => pc = "done" /\ Len(requests) >= 1

\* C22: with failover enabled and at least two providers, createMessage and
\* completePrompt attempt the providers in the order of getProvidersToUse,
\* one request per provider index; attempt i+1 is made only after attempt i
\* raised an error of which shouldFailover holds; no request is made once an
\* attempt succeeded or the call has thrown; and the call makes at most
\* providers.length attempts.
C22_FailoverOrder ==
  /\ []C22_InOrder
  /\ [][Finished => Len(requests') <= Len(requests)]_vars

\* completePrompt returns from the third provider after two failovers.
C22_Witness ==
  /\ FailoverCall
  /\ fn = "completePrompt"
  /\ ret.k = "returned"
  /\ Len(requests) = 3
  /\ Len(raised) = 2

\* C23: in the failover loop an error of which shouldFailover does not hold
\* is thrown to the caller at once, and so is every error of the last
\* provider, no later request being made; the error the caller receives is
\* the one raised to the most recent request, never one of an earlier attempt.
C23_Rethrown ==
  (FailoverCall /\ raised # <<>>) =>
    LET e == raised[Len(raised)]
    IN  /\ (~Eligible(e.error) \/ e.by = Len(providers.a) - 1) =>
             /\ pc = "done"
             /\ ret = [k |-> "thrown", error |-> e.error, by |-> e.by]
        /\ ret.k = "thrown" =>
             /\ ret.error = e.error
             /\ ret.by = e.by
             /\ e.by = Len(requests) - 1

\* The first of three providers fails over, the second raises an error that
\* is not eligible: the caller receives the second error.
C23_Witness ==
  /\ FailoverCall
  /\ Len(providers.a) = 3
  /\ Len(raised) = 2
  /\ raised[1].error # raised[2].error
  /\ ~Eligible(raised[2].error)
  /\ ret = [k |-> "thrown", error |-> raised[2].error, by |-> 1]
  /\ Len(requests) = 2

\* C24: with failover disabled, or at most one provider, createMessage and
\* completePrompt send exactly one request, routed to providers[0] alone
\* without fallbacks when there is a provider and without provider routing
\* when there is none, and never retry: an error raised to that request is
\* thrown to the caller.
C24_SingleRequest ==
  LegacyCall =>
    /\ Len(requests) <= 1
    /\ Finished => pc = "done" /\ Len(requests) = 1
    /\ \A i \in 1..Len(requests) :
         requests[i].provider = IF Len(providers.a) > 0 THEN OnlyTo(providers.a[1]) ELSE Undef
    /\ raised # <<>> =>
         /\ Len(raised) = 1
         /\ pc = "done"
         /\ ret = [k |-> "thrown", error |-> raised[1].error, by |-> 0]

\* Failover is disabled: a rate-limit error of the first of three providers
\* reaches the caller.
C24_Witness ==
  /\ LegacyCall
  /\ Len(providers.a) = 3
  /\ Len(requests) = 1
  /\ requests[1].provider = OnlyTo(Str(Text.provider1))
  /\ ret.k = "thrown"
  /\ Eligible(ret.error)

\* A rate-limit failure: the request failed with status 429, or a chunk
\* carried an error object with code 429.
RateLimited(error) ==
  \/ error.status = Num(429)
  \/ StartsAt(error.message.s, 1, S.apiError \o <<"4", "2", "9">>)

\* C25: in createMessage with failover enabled and at least two providers,
\* every rate-limit failure of a provider that is not the last, be it a
\* request that fails with status 429 or an error object with code 429 in a
\* chunk of the stream, makes the loop go on to the next provider.
C25_RateLimitFailsOver ==
  (FailoverCall /\ fn = "createMessage") =>
    \A i \in 1..Len(raised) :
      (RateLimited(raised[i].error) /\ raised[i].by < Len(providers.a) - 1) =>
        /\ providerIndex > raised[i].by
        /\ ~(ret.k = "thrown" /\ ret.by = raised[i].by)

\* C26: in one createMessage call with failover, the text and reasoning
\* chunks the consumer receives all come from one attempt.
C26_OneAttemptChunks ==
  (FailoverCall /\ fn = "createMessage") =>
    \A i, j \in 1..Len(yielded) :
      (yielded[i].type # "usage" /\ yielded[j].type # "usage") => yielded[i].by = yielded[j].by

\* C27: in one createMessage call a usage chunk is yielded at most once, by
\* an attempt whose stream ended without an error, and is the last chunk the
\* consumer receives.
C27_UsageLast ==
  fn = "createMessage" =>
    \A i \in 1..Len(yielded) :
      yielded[i].type = "usage" =>
        /\ i = Len(yielded)
        /\ ret.k = "returned"
        /\ yielded[i].by = Len(requests) - 1
        /\ \A j \in 1..Len(raised) : raised[j].by # yielded[i].by

\* After a failover the second provider streams a text and a usage: the
\* usage chunk comes last.
C27_Witness ==
  /\ FailoverCall
  /\ fn = "createMessage"
  /\ Len(raised) = 1
  /\ yielded = <<[type |-> "text", by |-> 1], [type |-> "usage", by |-> 1]>>

\* A tag starts at position i of the text.
TagAt(text, i, tag) ==
  /\ i + Len(tag) - 1 <= Len(text)
  /\ SubSeq(text, i, i + Len(tag) - 1) = tag

\* The "<think>" tags opened and not closed after the character at i.
ThinkDepth(text, i) ==
  Cardinality({j \in 1..i : TagAt(text, j, S.thinkOpen)})
    - Cardinality({j \in 1..i : TagAt(text, j, S.thinkClose)})

\* Every "</think>" closes a "<think>" before it, and every "<think>" is closed.
Balanced(text) ==
  /\ \A i \in 1..Len(text) : ThinkDepth(text, i) >= 0
  /\ ThinkDepth(text, Len(text)) = 0

\* The characters of the text that are neither in a tag nor in a block.
OutsideBlocks(text) ==
  LET inTag(i) == \E j \in 1..i : \E tag \in {S.thinkOpen, S.thinkClose} :
                    TagAt(text, j, tag) /\ i < j + Len(tag)
      kept[k \in 0..Len(text)] ==
        IF k = 0 THEN <<>>
        ELSE IF ~inTag(k) /\ ThinkDepth(text, k) = 0 THEN Append(kept[k - 1], text[k])
        ELSE kept[k - 1]
  IN  kept[Len(text)]

\* C29: for every text whose "<think>" and "</think>" tags are balanced,
\* nested blocks included, the result of stripThinkingTokens has no
\* "<think>", no "</think>" and none of the text of a block: it is the text
\* outside the blocks, trimmed.
C29_BlocksRemoved ==
  (Returned("stripThinkingTokens") /\ Balanced(arg.s)) =>
    /\ \A i \in 1..Len(ret.s) :
         ~TagAt(ret.s, i, S.thinkOpen) /\ ~TagAt(ret.s, i, S.thinkClose)
    /\ ret = Str(Trim(OutsideBlocks(arg.s)))

\* C28: when WandbHandler.createMessage has read the whole body, whatever
\* the reads were, the texts parsed are those of the "data: " lines of the
\* body, each once and in the order of the body, the last line included
\* when no line feed follows it.
C28_EveryDataLineParsed ==
  Returned("wandbCreateMessage") => parsed = ParsedOf(SplitLines(arg.s))

====
